---- MODULE Spec2Model ----
\* A model of the terminal runtime of the try directory selector:
\*   - the raw terminal controller (enable_raw_mode, disable_raw_mode,
\*     enable/disable_alternate_screen, emergency_cleanup, handle_signal),
\*   - the key decoder read_key() and the window-size cache,
\*   - the part of run_selector() that drives them (setup, render / read_key
\*     loop, teardown),
\* together with the environment they run against: the terminal device, the
\* input byte stream, resize signals and fatal signals.
EXTENDS Integers, Sequences, FiniteSets, TLC

\* ---------------------------------------------------------------------------
\* Bounds of the model
\* ---------------------------------------------------------------------------
\* longest input stream (bytes and pauses) drawn by InitKeys
MaxLen == 4
\* number of terminal resizes in one behaviour
MaxResize == 2
\* number of controller calls issued by the call-sequence driver (SpecAPI)
MaxCalls == 4

\* ---------------------------------------------------------------------------
\* Program constants
\* ---------------------------------------------------------------------------
ESC_KEY == 27
ENTER_KEY == 13
CTRL_C == 3
ARROW_LEFT == 1000
ARROW_RIGHT == 1001
ARROW_UP == 1002
ARROW_DOWN == 1003
DEL_KEY == 1004
HOME_KEY == 1005
END_KEY == 1006
PAGE_UP == 1007
PAGE_DOWN == 1008
KEY_UNKNOWN == 1009
KEY_RESIZE == -2
KEY_EOF == -1
\* bytes the decoder tests for
CH_LBRACKET == 91
CH_O == 79
CH_LT == 60
CH_M == 77
CH_m == 109
CH_TILDE == 126
CH_SEMI == 59
CH_A == 65
CH_B == 66
CH_C == 67
CH_D == 68
CH_H == 72
CH_F == 70
CH_0 == 48
CH_9 == 57
CSI_FINAL_LO == 64
CSI_FINAL_HI == 126
\* fallback window size
DEFAULT_COLS == 80
DEFAULT_ROWS == 24

\* A pause in the input stream longer than the escape timeout (VTIME = 1,
\* 100 ms).  It is an element of the stream, not a byte.
GAP == 999

FatalSignals == {"SIGINT", "SIGTERM", "SIGABRT"}

\* Terminal attributes (struct termios), reduced to the fields the program
\* changes: canonical mode, echo, and the read mode VMIN / VTIME.
Cooked == [icanon |-> TRUE, echo |-> TRUE, vmin |-> 1, vtime |-> 0]
CookedNoEcho == [icanon |-> TRUE, echo |-> FALSE, vmin |-> 1, vtime |-> 0]
OrigAttrs == {Cooked, CookedNoEcho}
\* static struct termios orig_termios: zero-initialised
ZeroAttrs == [icanon |-> FALSE, echo |-> FALSE, vmin |-> 0, vtime |-> 0]

\* <<rows, cols>> the terminal can have
Sizes == {<<24, 80>>, <<30, 100>>}

VARIABLES
    \* --- environment ---
    tty,                      \* stdin is a terminal (tcgetattr succeeds)
    term_attrs,               \* attributes of the terminal device
    term_alt,                 \* terminal shows the alternate screen
    term_cursor,              \* cursor visible
    term_size,                \* <<rows, cols>> of the terminal now
    input,                    \* stream not yet consumed: bytes and GAPs
    head_ready,               \* the head byte of input has arrived
    eintr,                    \* a blocked read was interrupted (errno EINTR)
    \* --- program ---
    pc,                       \* position of the main flow
    driver,                   \* "selector": run_selector; "api": call driver
    orig_termios,
    raw_mode_enabled,
    alternate_screen_enabled,
    atexit_n,                 \* emergency_cleanup registrations (atexit)
    handlers,                 \* signals handled by handle_signal
    winch_installed,          \* SIGWINCH handled by handle_winch
    cached_rows,
    cached_cols,
    window_size_valid,
    frame_size,               \* rows, cols of the frame being rendered
    original_state,           \* read_key: attributes saved by the ESC branch
    seq,                      \* read_key: seq[0], seq[1], last
    ret,                      \* value returned by read_key (c in run_selector)
    int_pc,                   \* position interrupted by a fatal signal
    sig_calls,                \* routines called in signal-handler context
    \* --- history ---
    orig0,                    \* attributes before the first enable
    modified,                 \* enable has changed the terminal
    restores,                 \* attribute values written back by restores
    n_restore,                \* restores since the last enable call
    n_leave,                  \* alternate-screen leaves since last enable call
    n_teardown,               \* disable / emergency calls since last enable call
    n_enable,                 \* enable calls of the current enable/teardown cycle
    pre_attrs,                \* terminal attributes when the cycle's enable began
    n_calls,                  \* calls issued by the call driver
    n_resize,                 \* resizes so far
    size_at_query,            \* terminal size when get_window_size last ran
    entry_attrs,              \* terminal attributes when read_key was entered
    esc_branch,               \* the current read_key call took the ESC branch
    input0,                   \* input stream at the start
    keys,                     \* non-resize values returned by read_key
    \* --- style stack ---
    ss,                       \* a TuiStyleString, tui_no_colors = false
    ss_nc,                    \* the same calls made with tui_no_colors = true
    call_log,                 \* the calls made on ss and ss_nc, in order
    \* --- screen composer ---
    tui,                      \* the Tui of the frame: cols, row, file, ...
    wcall,                    \* the tui_screen_write_truncated call of the run
    \* --- scorer ---
    fz,                       \* a TryEntry, the query and the time of a fuzzy_match call
    \* --- selector ---
    sel,                      \* the globals of tui.c, the dialog's locals, a TuiInput
    \* --- window size and injected keys ---
    wq,                       \* what getenv, ioctl and tput answer, and the size returned
    inj                       \* Mode: inject_keys, key_index and the keys read from them

fixedVars == <<tty, driver, orig0, input0>>
styleVars == <<ss, ss_nc, call_log>>
auxVars == <<wq, inj>>
compVars == <<tui, wcall, fz, sel, auxVars>>
termVars == <<term_attrs, term_alt, term_cursor>>
inVars == <<input, head_ready, eintr>>
flagVars == <<raw_mode_enabled, alternate_screen_enabled>>
hookVars == <<atexit_n, handlers, winch_installed>>
cacheVars == <<cached_rows, cached_cols, window_size_valid>>
frameVars == <<frame_size, size_at_query>>
rkVars == <<original_state, seq, entry_attrs, esc_branch>>
retVars == <<ret, keys>>
sigVars == <<int_pc, sig_calls>>
cntVars == <<restores, n_restore, n_leave>>
cycleVars == <<n_teardown, n_enable, n_calls, pre_attrs>>
selectorVars == <<fixedVars, termVars, inVars, flagVars, hookVars, cacheVars, frameVars,
                  rkVars, retVars, sigVars, cntVars, cycleVars,
                  pc, orig_termios, term_size, n_resize, modified>>
vars == <<selectorVars, styleVars, compVars>>

\* ---------------------------------------------------------------------------
\* Style stack (tui_style.c)
\* ---------------------------------------------------------------------------
\* A style string "\033[p1;p2;...m" is the sequence of its parameters; the
\* empty style is <<>>.
TUI_BOLD == <<1>>
TUI_DIM == <<2>>
ANSI_ITALIC == <<3>>
TUI_HIGHLIGHT == <<1, 33>>
TUI_MATCH == <<38, 5, 11>>
TUI_SELECTED == <<48, 5, 237>>
NoStyle == <<>>

ANSI_RESET_FG == <<39>>
ANSI_RESET_BG == <<49>>
ANSI_BOLD_OFF == <<22>>
ANSI_DIM_OFF == <<22>>

TUI_CHANGES_FG == 1
TUI_CHANGES_BG == 2
TUI_CHANGES_BOLD == 4
TUI_CHANGES_DIM == 8

TUI_STYLE_STACK_MAX == 8

\* the slots of stack[], style_strs[], style_flags[]
Slots == 0..(TUI_STYLE_STACK_MAX - 1)

\* the styles the calls are made with
Styles == {TUI_BOLD, TUI_DIM, ANSI_ITALIC, TUI_HIGHLIGHT, TUI_MATCH, TUI_SELECTED,
           NoStyle}

\* the category bits one numeric parameter sets
CodeFlags(code) ==
    IF code = 1 THEN {TUI_CHANGES_BOLD}
    ELSE IF code = 2 THEN {TUI_CHANGES_DIM}
    ELSE IF (code >= 30 /\ code <= 37) \/ code = 38 \/ code = 39
            \/ (code >= 90 /\ code <= 97) THEN {TUI_CHANGES_FG}
    ELSE IF (code >= 40 /\ code <= 47) \/ code = 48 \/ code = 49
            \/ (code >= 100 /\ code <= 107) THEN {TUI_CHANGES_BG}
    ELSE {}

\* int tui_style_flags(const char *style): the bitmask as the set of its bits;
\* every parameter up to the 'm' is taken for a code
tui_style_flags(style) == UNION {CodeFlags(style[i]) : i \in 1..Len(style)}

\* what the buffer holds: style codes and text
Sgr(style) == [sgr |-> TRUE, p |-> style]
Text(t) == [sgr |-> FALSE, p |-> t]

\* zstr_cat(s, str)
zstr_cat(str, item) == IF item.p = <<>> THEN str ELSE Append(str, item)

\* TuiStyles tui_styles(void), with the buffer the TuiStyleString wraps;
\* touched: the slots of the arrays read or written so far
tui_styles ==
    [depth |-> 0,
     style_strs |-> [i \in Slots |-> NoStyle],
     style_flags |-> [i \in Slots |-> {}],
     str |-> <<>>,
     touched |-> {0}]

\* a write of the style code that ignores the switch
tui_style_always(str, style, no_colors) ==
    IF style # NoStyle THEN zstr_cat(str, Sgr(style)) ELSE str

\* static inline void tui_style(zstr *s, const char *style)
tui_style(str, style, no_colors) ==
    IF ~no_colors /\ style # NoStyle THEN zstr_cat(str, Sgr(style)) ELSE str

\* for (i = 1; i <= depth; i++) if (style_flags[i] & flags) zstr_cat(...)
RECURSIVE ReemitFrom(_, _, _, _)
ReemitFrom(s, str, flags, i) ==
    IF i > s.depth THEN str
    ELSE ReemitFrom(s,
                    IF s.style_flags[i] \cap flags # {}
                      THEN zstr_cat(str, Sgr(s.style_strs[i]))
                      ELSE str,
                    flags, i + 1)

\* static void tui_reemit_flags(TuiStyleString *ss, int flags)
tui_reemit_flags(s, flags, no_colors) ==
    IF no_colors THEN s
    ELSE [s EXCEPT !.str = ReemitFrom(s, s.str, flags, 1),
                   !.touched = @ \cup (1..s.depth)]

\* resets that leave bold and dim alone
tui_emit_resets_colors_only(s, flags, no_colors) ==
    IF no_colors THEN s
    ELSE
      LET s3 == IF TUI_CHANGES_FG \in flags
                  THEN zstr_cat(s.str, Sgr(ANSI_RESET_FG)) ELSE s.str
          s4 == IF TUI_CHANGES_BG \in flags
                  THEN zstr_cat(s3, Sgr(ANSI_RESET_BG)) ELSE s3
      IN [s EXCEPT !.str = s4]

\* static void tui_emit_resets(TuiStyleString *ss, int flags)
tui_emit_resets(s, flags, no_colors) ==
    IF no_colors THEN s
    ELSE
      LET s1 == IF TUI_CHANGES_BOLD \in flags
                  THEN zstr_cat(s.str, Sgr(ANSI_BOLD_OFF)) ELSE s.str
          s2 == IF TUI_CHANGES_DIM \in flags
                  THEN zstr_cat(s1, Sgr(ANSI_DIM_OFF)) ELSE s1
          s3 == IF TUI_CHANGES_FG \in flags
                  THEN zstr_cat(s2, Sgr(ANSI_RESET_FG)) ELSE s2
          s4 == IF TUI_CHANGES_BG \in flags
                  THEN zstr_cat(s3, Sgr(ANSI_RESET_BG)) ELSE s3
      IN [s EXCEPT !.str = s4]

\* tui_emit_resets(ss, flags); tui_reemit_flags(ss, flags);
Reconcile(s, flags, no_colors) ==
    tui_reemit_flags(tui_emit_resets(s, flags, no_colors), flags, no_colors)

\* the stack takes no further frame
PushFullLate(depth) == depth > TUI_STYLE_STACK_MAX

\* if (ss->styles.depth >= TUI_STYLE_STACK_MAX - 1) return;
PushFull(depth) == depth >= TUI_STYLE_STACK_MAX - 1

\* a pop that never finds the stack empty
PopEmptyNever(depth) == FALSE

\* if (ss->styles.depth <= 0) return;
PopEmpty(depth) == depth <= 0

\* void tui_push(TuiStyleString *ss, const char *style)
tui_push(s, style, no_colors) ==
    IF style = NoStyle THEN s
    ELSE IF PushFull(s.depth) THEN s
    ELSE
      LET d == s.depth + 1 IN
        [s EXCEPT !.depth = d,
                  !.style_strs = [i \in DOMAIN @ |-> IF i = d THEN style ELSE @[i]],
                  !.style_flags = [i \in DOMAIN @ |->
                                     IF i = d THEN tui_style_flags(style) ELSE @[i]],
                  !.touched = @ \cup {d},
                  !.str = tui_style(s.str, style, no_colors)]

\* a pop that reconciles and leaves the frame on the stack
tui_pop_keeps_frame(s, no_colors) ==
    IF PopEmpty(s.depth) THEN s
    ELSE
      LET flags == IF s.depth \in Slots THEN s.style_flags[s.depth] ELSE {}
      IN IF ~no_colors /\ flags # {} THEN Reconcile(s, flags, no_colors) ELSE s

\* void tui_pop(TuiStyleString *ss)
tui_pop(s, no_colors) ==
    IF PopEmpty(s.depth) THEN s
    ELSE
      LET flags == IF s.depth \in Slots THEN s.style_flags[s.depth] ELSE {}
          s1 == [s EXCEPT !.depth = @ - 1, !.touched = @ \cup {s.depth}]
      IN IF ~no_colors /\ flags # {} THEN Reconcile(s1, flags, no_colors) ELSE s1

\* a print whose reconciliation is skipped for a zero-byte text
tui_print_skips_empty(s, style, text, no_colors) ==
    LET styled == ~no_colors /\ style # NoStyle
        flags == IF styled /\ text # <<>> THEN tui_style_flags(style) ELSE {}
        s1 == [s EXCEPT !.str = zstr_cat(IF styled THEN zstr_cat(@, Sgr(style)) ELSE @,
                                         Text(text))]
    IN IF flags # {} THEN Reconcile(s1, flags, no_colors) ELSE s1

\* void tui_print(TuiStyleString *ss, const char *style, const char *text)
tui_print(s, style, text, no_colors) ==
    LET styled == ~no_colors /\ style # NoStyle
        flags == IF styled THEN tui_style_flags(style) ELSE {}
        s1 == [s EXCEPT !.str = zstr_cat(IF styled THEN zstr_cat(@, Sgr(style)) ELSE @,
                                         Text(text))]
    IN IF flags # {} THEN Reconcile(s1, flags, no_colors) ELSE s1

\* void tui_printf(TuiStyleString *ss, const char *style, const char *fmt, ...):
\* formatted is the text vsnprintf produces, appended when len > 0
tui_printf(s, style, formatted, no_colors) ==
    LET styled == ~no_colors /\ style # NoStyle
        flags == IF styled THEN tui_style_flags(style) ELSE {}
        s0 == IF styled THEN zstr_cat(s.str, Sgr(style)) ELSE s.str
        s1 == [s EXCEPT !.str = IF Len(formatted) > 0
                                  THEN Append(s0, Text(formatted)) ELSE s0]
    IN IF flags # {} THEN Reconcile(s1, flags, no_colors) ELSE s1

\* What the terminal shows after a stream of SGR codes: ECMA-48 select graphic
\* rendition, for the codes of the ANSI_* definitions.
TermDefault ==
    [bold |-> FALSE, dim |-> FALSE, italic |-> FALSE,
     fg |-> ANSI_RESET_FG, bg |-> ANSI_RESET_BG]

SgrCode(t, c) ==
    IF c = 0 THEN TermDefault
    ELSE IF c = 1 THEN [t EXCEPT !.bold = TRUE]
    ELSE IF c = 2 THEN [t EXCEPT !.dim = TRUE]
    ELSE IF c = 3 THEN [t EXCEPT !.italic = TRUE]
    ELSE IF c = 22 THEN [t EXCEPT !.bold = FALSE, !.dim = FALSE]
    ELSE IF c = 23 THEN [t EXCEPT !.italic = FALSE]
    ELSE IF (c >= 30 /\ c <= 37) \/ c = 39 \/ (c >= 90 /\ c <= 97)
           THEN [t EXCEPT !.fg = <<c>>]
    ELSE IF (c >= 40 /\ c <= 47) \/ c = 49 \/ (c >= 100 /\ c <= 107)
           THEN [t EXCEPT !.bg = <<c>>]
    ELSE t

\* one "\033[...m": 38;5;n and 48;5;n select a palette colour
RECURSIVE SgrApply(_, _)
SgrApply(t, p) ==
    IF p = <<>> THEN t
    ELSE IF Head(p) = 38 /\ Len(p) >= 3 /\ p[2] = 5
      THEN SgrApply([t EXCEPT !.fg = SubSeq(p, 1, 3)], SubSeq(p, 4, Len(p)))
    ELSE IF Head(p) = 48 /\ Len(p) >= 3 /\ p[2] = 5
      THEN SgrApply([t EXCEPT !.bg = SubSeq(p, 1, 3)], SubSeq(p, 4, Len(p)))
    ELSE SgrApply(SgrCode(t, Head(p)), Tail(p))

\* the terminal after the buffer is written to it
RECURSIVE TermAfter(_, _)
TermAfter(t, str) ==
    IF str = <<>> THEN t
    ELSE TermAfter(IF Head(str).sgr THEN SgrApply(t, Head(str).p) ELSE t, Tail(str))

\* no call made on the style stack: the state outside the style runs
StyleIdle == ss = tui_styles /\ ss_nc = tui_styles /\ call_log = <<>>

\* ---------------------------------------------------------------------------
\* Screen composer (tui_style.c): lines as bytes
\* ---------------------------------------------------------------------------
CH_K == 75
CH_Z == 90
CH_a == 97
CH_z == 122

ANSI_RESET == <<0>>
ANSI_CLR == <<ESC_KEY, CH_LBRACKET, CH_K>>
NEWLINE == 10

\* the decimal digits of n
RECURSIVE Dec(_)
Dec(n) == IF n < 10 THEN <<CH_0 + n>> ELSE Dec(n \div 10) \o <<CH_0 + (n % 10)>>

RECURSIVE Params(_)
Params(p) ==
    IF Len(p) = 1 THEN Dec(p[1]) ELSE Dec(Head(p)) \o <<CH_SEMI>> \o Params(Tail(p))

\* the bytes of the string "\033[<p1>;<p2>...m"
SgrBytes(p) == <<ESC_KEY, CH_LBRACKET>> \o Params(p) \o <<CH_m>>

\* zstr_cstr(s), zstr_len(s): the bytes of the buffer
RECURSIVE zstr_cstr(_)
zstr_cstr(str) ==
    IF str = <<>> THEN <<>>
    ELSE (IF Head(str).sgr THEN SgrBytes(Head(str).p) ELSE Head(str).p)
         \o zstr_cstr(Tail(str))

\* static unsigned int decode_utf8(const char *s, size_t len, size_t *i):
\* the codepoint and the index of the last byte taken (s is indexed from 1)
decode_utf8(s, i) ==
    LET c == s[i]
        len == Len(s)
    IN IF c < 128 THEN [cp |-> c, i |-> i]
       ELSE IF c \div 32 = 6 /\ i + 1 <= len
         THEN [cp |-> (c % 32) * 64 + (s[i + 1] % 64), i |-> i + 1]
       ELSE IF c \div 16 = 14 /\ i + 2 <= len
         THEN [cp |-> (c % 16) * 4096 + (s[i + 1] % 64) * 64 + (s[i + 2] % 64),
               i |-> i + 2]
       ELSE IF c \div 8 = 30 /\ i + 3 <= len
         THEN [cp |-> (c % 8) * 262144 + (s[i + 1] % 64) * 4096
                      + (s[i + 2] % 64) * 64 + (s[i + 3] % 64),
               i |-> i + 3]
       ELSE [cp |-> 0, i |-> i]

\* static int codepoint_width(unsigned int cp)
codepoint_width(cp) ==
    IF cp < 128 THEN 1
    ELSE IF cp >= 127744 /\ cp <= 129791 THEN 2
    ELSE IF cp >= 9728 /\ cp <= 10175 THEN 2
    ELSE 1

\* (s[i] >= 'A' && s[i] <= 'Z') || (s[i] >= 'a' && s[i] <= 'z')
IsLetter(c) == (c >= CH_A /\ c <= CH_Z) \/ (c >= CH_a /\ c <= CH_z)

\* while (i < len && !letter(s[i])) i++;
RECURSIVE SkipSequence(_, _)
SkipSequence(s, i) ==
    IF i <= Len(s) /\ ~IsLetter(s[i]) THEN SkipSequence(s, i + 1) ELSE i

\* c == '\033' && i + 1 < len && s[i + 1] == '['
AtSequence(s, i) == s[i] = ESC_KEY /\ i + 1 <= Len(s) /\ s[i + 1] = CH_LBRACKET

\* (c & 0xC0) == 0x80
IsContinuation(c) == c \div 64 = 2

RECURSIVE VisibleFrom(_, _, _)
VisibleFrom(s, i, width) ==
    IF i > Len(s) THEN width
    ELSE IF AtSequence(s, i) THEN VisibleFrom(s, SkipSequence(s, i + 2) + 1, width)
    ELSE IF IsContinuation(s[i]) THEN VisibleFrom(s, i + 1, width)
    ELSE LET d == decode_utf8(s, i)
         IN VisibleFrom(s, d.i + 1, width + codepoint_width(d.cp))

\* static int visible_width(const char *s, size_t len)
visible_width(s) == VisibleFrom(s, 1, 0)

RECURSIVE TruncateFrom(_, _, _, _)
TruncateFrom(s, i, width, max_width) ==
    IF i > Len(s) THEN Len(s)
    ELSE IF AtSequence(s, i)
      THEN TruncateFrom(s, SkipSequence(s, i + 2) + 1, width, max_width)
    ELSE IF IsContinuation(s[i]) THEN TruncateFrom(s, i + 1, width, max_width)
    ELSE LET d == decode_utf8(s, i)
             char_width == codepoint_width(d.cp)
         IN IF width + char_width > max_width THEN i - 1
            ELSE TruncateFrom(s, d.i + 1, width + char_width, max_width)

\* a cut after max_width bytes
truncate_at_bytes(s, max_width) == IF max_width < Len(s) THEN max_width ELSE Len(s)

\* static size_t truncate_at_width(const char *s, size_t len, int max_width):
\* the number of bytes kept
truncate_at_width(s, max_width) == TruncateFrom(s, 1, 0, max_width)

\* Tui tui_begin_screen(FILE *f), with cols the width get_window_size gave
tui_begin_screen(cols) ==
    [file |-> <<>>, row |-> 1, cols |-> cols, cursor_row |-> -1, cursor_col |-> -1,
     line_has_selection |-> FALSE]

\* TuiStyleString tui_screen_line(Tui *t)
tui_screen_line(t) ==
    [t |-> [t EXCEPT !.line_has_selection = FALSE], line |-> tui_styles]

\* TuiStyleString tui_screen_line_selected(Tui *t)
tui_screen_line_selected(t, no_colors) ==
    [t |-> [t EXCEPT !.line_has_selection = TRUE],
     line |-> tui_push(tui_styles, TUI_SELECTED, no_colors)]

\* void tui_screen_write_truncated(Tui *t, TuiStyleString *line,
\*                                 const char *overflow)
tui_screen_write_truncated(t, line, overflow, no_colors) ==
    LET line1 == IF t.line_has_selection THEN tui_pop(line, no_colors) ELSE line
        buf == zstr_cstr(line1.str)
        width == visible_width(buf)
        overflow_len == Len(overflow)
        max_content == IF t.cols - overflow_len < 0 THEN 0 ELSE t.cols - overflow_len
        trunc_pos == truncate_at_width(buf, max_content)
        out == IF width > t.cols
                 THEN SubSeq(buf, 1, trunc_pos) \o SgrBytes(ANSI_RESET) \o overflow
                      \o ANSI_CLR \o <<NEWLINE>>
                 ELSE buf \o ANSI_CLR \o <<NEWLINE>>
    IN [t |-> [t EXCEPT !.file = @ \o out, !.row = @ + 1,
                        !.line_has_selection = FALSE],
        line |-> line1]

\* while (*p) { if (*p == '\033') { skip through 'm' } else { visual_col++; p++; } }
RECURSIVE VisualCol(_, _)
VisualCol(b, in_code) ==
    IF b = <<>> THEN 0
    ELSE IF in_code THEN VisualCol(Tail(b), Head(b) # CH_m)
    ELSE IF Head(b) = ESC_KEY THEN VisualCol(b, TRUE)
    ELSE 1 + VisualCol(Tail(b), FALSE)

\* void tui_screen_input(Tui *t, TuiInput *input): the cursor position kept
\* for tui_free, and the text of the field appended to the line with what is
\* left of the placeholder in TUI_DIM
tui_screen_input(t, line, field) ==
    LET text == field.text
        len == Len(text)
        cursor_pos == IF field.cursor < 0 THEN 0
                      ELSE IF field.cursor > len THEN len ELSE field.cursor
        placeholder_len == Len(field.placeholder)
        matches_placeholder ==
            /\ field.placeholder # <<>>
            /\ len <= placeholder_len
            /\ text = SubSeq(field.placeholder, 1, len)
        typed == zstr_cat(zstr_cat(line.str, Text(SubSeq(text, 1, cursor_pos))),
                          Text(SubSeq(text, cursor_pos + 1, len)))
        str == IF matches_placeholder /\ placeholder_len > 0 /\ len < placeholder_len
                 THEN zstr_cat(zstr_cat(zstr_cat(typed, Sgr(TUI_DIM)),
                         Text(SubSeq(field.placeholder, len + 1, placeholder_len))),
                         Sgr(ANSI_DIM_OFF))
                 ELSE typed
    IN [t |-> [t EXCEPT !.cursor_col = VisualCol(zstr_cstr(line.str), FALSE)
                                         + cursor_pos + 1,
                        !.cursor_row = t.row],
        line |-> [line EXCEPT !.str = str]]

\* ---------------------------------------------------------------------------
\* Line editing: tui_input_handle_key (tui_style.c) and
\* handle_readline_keybinding with the insertion of run_selector (tui.c)
\* ---------------------------------------------------------------------------
BACKSPACE == 127
CTRL_A == 1
CTRL_B == 2
CTRL_D == 4
CTRL_E == 5
CTRL_F == 6
CTRL_H == 8
CTRL_K == 11
CTRL_N == 14
CTRL_P == 16
CTRL_U == 21
CTRL_W == 23
CH_SPACE == 32
CH_TAB == 9

\* isalnum((unsigned char)c) in the C locale
isalnum(c) == (c >= CH_0 /\ c <= CH_9) \/ IsLetter(c)

\* iscntrl(c), for c representable as unsigned char
iscntrl(c) == c < CH_SPACE \/ c = BACKSPACE

\* data without the byte at index i (indexed from 0)
WithoutByte(data, i) == SubSeq(data, 1, i) \o SubSeq(data, i + 2, Len(data))

\* data with byte c put before index i (indexed from 0), or appended at the end
WithByte(data, i, c) ==
    IF i >= Len(data) THEN Append(data, c)
    ELSE SubSeq(data, 1, i) \o <<c>> \o SubSeq(data, i + 1, Len(data))

\* while (pos >= 0 && isalnum(data[pos]) == alnum) pos--;
RECURSIVE BackWhile(_, _, _)
BackWhile(data, pos, alnum) ==
    IF pos >= 0 /\ (isalnum(data[pos + 1]) = alnum)
      THEN BackWhile(data, pos - 1, alnum) ELSE pos

\* the start of the word Ctrl-W kills
KillWordStart(data, cursor) ==
    BackWhile(data, BackWhile(data, cursor - 1, FALSE), TRUE) + 1

\* a kill-word that leaves the cursor where it was
KillWordKeepsCursor(text, cursor) ==
    IF cursor > 0
      THEN [text |-> SubSeq(text, 1, KillWordStart(text, cursor))
                     \o SubSeq(text, cursor + 1, Len(text)),
            cursor |-> cursor]
      ELSE [text |-> text, cursor |-> cursor]

\* Ctrl-W of both editors
KillWord(text, cursor) ==
    IF cursor > 0
      THEN [text |-> SubSeq(text, 1, KillWordStart(text, cursor))
                     \o SubSeq(text, cursor + 1, Len(text)),
            cursor |-> KillWordStart(text, cursor)]
      ELSE [text |-> text, cursor |-> cursor]

\* bool tui_input_handle_key(TuiInput *input, int key): the field after the
\* key, and the value returned
tui_input_handle_key(field, key) ==
    LET text == field.text
        cursor == field.cursor
        len == Len(field.text)
        Is(t, c) == [field |-> [text |-> t, cursor |-> c], handled |-> TRUE]
    IN IF key = CTRL_A THEN Is(text, 0)
       ELSE IF key = CTRL_E THEN Is(text, len)
       ELSE IF key = CTRL_B \/ key = ARROW_LEFT
         THEN Is(text, IF cursor > 0 THEN cursor - 1 ELSE cursor)
       ELSE IF key = CTRL_F \/ key = ARROW_RIGHT
         THEN Is(text, IF cursor < len THEN cursor + 1 ELSE cursor)
       ELSE IF key = BACKSPACE \/ key = CTRL_H
         THEN IF cursor > 0 THEN Is(WithoutByte(text, cursor - 1), cursor - 1)
              ELSE Is(text, cursor)
       ELSE IF key = DEL_KEY
         THEN IF cursor < len THEN Is(WithoutByte(text, cursor), cursor)
              ELSE Is(text, cursor)
       ELSE IF key = CTRL_K
         THEN IF cursor < len THEN Is(SubSeq(text, 1, cursor), cursor)
              ELSE Is(text, cursor)
       ELSE IF key = CTRL_U
         THEN IF cursor > 0 THEN Is(SubSeq(text, cursor + 1, len), 0)
              ELSE Is(text, cursor)
       ELSE IF key = CTRL_W
         THEN LET k == KillWord(text, cursor) IN Is(k.text, k.cursor)
       ELSE IF key >= CH_SPACE /\ key < BACKSPACE
         THEN Is(WithByte(text, cursor, key), cursor + 1)
       ELSE [field |-> field, handled |-> FALSE]

\* static bool handle_readline_keybinding(zstr *buffer, int *cursor, int key)
handle_readline_keybinding(buffer, cursor, key) ==
    LET len == Len(buffer)
        Is(t, c) == [buffer |-> t, cursor |-> c, handled |-> TRUE]
    IN IF key = CTRL_A THEN Is(buffer, 0)
       ELSE IF key = CTRL_E THEN Is(buffer, len)
       ELSE IF key = CTRL_B \/ key = ARROW_LEFT
         THEN Is(buffer, IF cursor > 0 THEN cursor - 1 ELSE cursor)
       ELSE IF key = CTRL_F \/ key = ARROW_RIGHT
         THEN Is(buffer, IF cursor < len THEN cursor + 1 ELSE cursor)
       ELSE IF key = CTRL_K
         THEN IF cursor < len THEN Is(SubSeq(buffer, 1, cursor), cursor)
              ELSE Is(buffer, cursor)
       ELSE IF key = CTRL_W
         THEN LET k == KillWord(buffer, cursor) IN Is(k.text, k.cursor)
       ELSE IF key = BACKSPACE \/ key = CTRL_H
         THEN IF cursor > 0 THEN Is(WithoutByte(buffer, cursor - 1), cursor - 1)
              ELSE Is(buffer, cursor)
       ELSE [buffer |-> buffer, cursor |-> cursor, handled |-> FALSE]

\* every key that iscntrl() lets through is inserted, whatever its value
EditKeyAnyValue(buffer, cursor, c, cntrl) ==
    LET r == handle_readline_keybinding(buffer, cursor, c)
        is_cntrl == IF c >= 0 /\ c <= 255 THEN iscntrl(c) ELSE cntrl
    IN IF r.handled THEN [buffer |-> r.buffer, cursor |-> r.cursor, edited |-> TRUE]
       ELSE IF ~is_cntrl
         THEN [buffer |-> WithByte(buffer, cursor, c % 256), cursor |-> cursor + 1,
               edited |-> TRUE]
       ELSE [buffer |-> buffer, cursor |-> cursor, edited |-> FALSE]

\* } else if (handle_readline_keybinding(&buffer, &cursor, c)) { ... }
\*   else if (!iscntrl(c) && c < 128) { insert c at the cursor }
\* of run_selector and render_delete_confirmation. c outside the range of
\* unsigned char and not EOF makes iscntrl(c) undefined: cntrl is the value it
\* then returns.
EditKey(buffer, cursor, c, cntrl) ==
    LET r == handle_readline_keybinding(buffer, cursor, c)
        is_cntrl == IF c >= 0 /\ c <= 255 THEN iscntrl(c) ELSE cntrl
    IN IF r.handled THEN [buffer |-> r.buffer, cursor |-> r.cursor, edited |-> TRUE]
       ELSE IF ~is_cntrl /\ c < 128
         THEN [buffer |-> WithByte(buffer, cursor, c % 256), cursor |-> cursor + 1,
               edited |-> TRUE]
       ELSE [buffer |-> buffer, cursor |-> cursor, edited |-> FALSE]

\* ---------------------------------------------------------------------------
\* Fuzzy match scorer (fuzzy.c). Scores are in thousandths, rounded down.
\* ---------------------------------------------------------------------------
ScoreUnit == 1000
CH_HYPHEN == 45

HOUR == 3600
DAY == 86400
WEEK == 604800

\* "{b}", "{/b}", "{dim}"
TOKEN_B == <<123, 98, 125>>
TOKEN_B_END == <<123, 47, 98, 125>>
TOKEN_DIM == <<123, 100, 105, 109, 125>>

\* the integer square root of n
RECURSIVE Isqrt(_)
Isqrt(n) ==
    IF n < 2 THEN n
    ELSE LET r == 2 * Isqrt(n \div 4)
         IN IF (r + 1) * (r + 1) > n THEN r ELSE r + 1

\* x / sqrt(n) for x in thousandths
DivSqrt(x, n) == (x * ScoreUnit) \div Isqrt(n * ScoreUnit * ScoreUnit)

\* tolower(c) in the C locale
tolower(c) == IF c >= CH_A /\ c <= CH_Z THEN c + (CH_a - CH_A) ELSE c

\* isdigit(c)
isdigit(c) == c >= CH_0 /\ c <= CH_9

\* static bool has_date_prefix(const char *text)
has_date_prefix(text) ==
    /\ Len(text) >= 11
    /\ \A i \in {1, 2, 3, 4, 6, 7, 9, 10} : isdigit(text[i])
    /\ \A i \in {5, 8, 11} : text[i] = CH_HYPHEN

\* the walk over the name: while (*t_ptr) { ... }, from position pos (indexed
\* from 0) with the score, the query index, the last match and the rendered
\* text so far
RECURSIVE MatchWalk(_, _, _, _)
MatchWalk(text, query, pos, w) ==
    IF pos >= Len(text) THEN w
    ELSE
      LET c == tolower(text[pos + 1])
          hit == w.query_idx < Len(query) /\ c = tolower(query[w.query_idx + 1])
          boundary == IF pos = 0 \/ ~isalnum(tolower(text[pos])) THEN ScoreUnit ELSE 0
          proximity == IF w.last_pos >= 0
                         THEN DivSqrt(ScoreUnit, (pos - w.last_pos - 1) + 1) ELSE 0
      IN MatchWalk(text, query, pos + 1,
           IF hit
             THEN [score |-> w.score + ScoreUnit + boundary + proximity,
                   query_idx |-> w.query_idx + 1,
                   last_pos |-> pos,
                   rendered |-> w.rendered \o TOKEN_B \o <<text[pos + 1]>> \o TOKEN_B_END]
             ELSE [w EXCEPT !.rendered = Append(@, text[pos + 1])])

\* time_score: the bonus for the age difftime(now, entry->mtime)
TimeScore(age) ==
    IF age < HOUR THEN 500
    ELSE IF age < DAY THEN 300
    ELSE IF age < WEEK THEN 100
    ELSE 0

\* void fuzzy_match(TryEntry *entry, const char *query), with now the value of
\* time(NULL)
fuzzy_match(entry, query, now) ==
    LET text == entry.name
        bonus == IF has_date_prefix(text) THEN 2 * ScoreUnit ELSE 0
        age == now - entry.mtime
        w == MatchWalk(text, query, 0,
                       [score |-> bonus, query_idx |-> 0, last_pos |-> -1,
                        rendered |-> <<>>])
        dense == IF w.last_pos >= 0
                   THEN (w.score * Len(query)) \div (w.last_pos + 1) ELSE w.score
        scaled == (dense * 10) \div (Len(text) + 10)
    IN IF query = <<>>
         THEN [entry EXCEPT !.score = bonus + TimeScore(age), !.rendered = text]
       ELSE IF w.query_idx < Len(query)
         THEN [entry EXCEPT !.score = 0, !.rendered = w.rendered]
       ELSE [entry EXCEPT !.score = scaled + TimeScore(age), !.rendered = w.rendered]

\* TryEntry entry = {0}; entry.name = ...; entry.mtime = ...;
\* entry.rendered = zstr_dup(&entry.name); entry.score = 0;   (scan_tries)
TryEntry(name, mtime) ==
    [name |-> name, mtime |-> mtime, score |-> 0, rendered |-> name,
     marked_for_delete |-> FALSE]

\* ---------------------------------------------------------------------------
\* Interactive selector (tui.c): filter_tries, render's scrolling, the key
\* loops of run_selector and render_delete_confirmation.
\* ---------------------------------------------------------------------------

\* "YES"
YES == <<89, 69, 83>>

\* the sequences that hold the elements of ptrs once each
Orderings(ptrs) ==
    {p \in [1..Len(ptrs) -> {ptrs[i] : i \in 1..Len(ptrs)}] :
        \A i, j \in 1..Len(ptrs) : i # j => p[i] # p[j]}

\* compare_tries_by_score(a, b) <= 0: a may stand before b
compare_tries_by_score(a, b) == IF a.score > b.score THEN -1
                                ELSE IF a.score < b.score THEN 1 ELSE 0

\* a sort that leaves the order as it is
qsort_keeps_order(ptrs, tries) == {ptrs}

\* qsort(filtered_ptrs.data, length, sizeof(TryEntry *), compare_tries_by_score):
\* the orders it may leave; elements that compare equal come in any order
qsort(ptrs, tries) ==
    {p \in Orderings(ptrs) :
        \A i \in 1..(Len(p) - 1) :
            compare_tries_by_score(tries[p[i]], tries[p[i + 1]]) <= 0}

\* the entries filter_tries pushes, in the order of all_tries
RECURSIVE PushKept(_, _, _)
PushKept(tries, filter, i) ==
    IF i > Len(tries) THEN <<>>
    ELSE IF Len(filter) > 0 /\ tries[i].score <= 0 THEN PushKept(tries, filter, i + 1)
    ELSE <<i>> \o PushKept(tries, filter, i + 1)

\* filter_tries without the reset of selected_index
filter_tries_keeps_index(s, now) ==
    LET scored == [i \in 1..Len(s.all_tries) |->
                     fuzzy_match(s.all_tries[i], s.filter_buffer, now)]
        kept == PushKept(scored, s.filter_buffer, 1)
    IN {[s EXCEPT !.all_tries = scored, !.filtered_ptrs = p] :
          p \in qsort(kept, scored)}

\* static void filter_tries(void): the states it may leave, one for each
\* order of qsort
filter_tries(s, now) ==
    LET scored == [i \in 1..Len(s.all_tries) |->
                     fuzzy_match(s.all_tries[i], s.filter_buffer, now)]
        kept == PushKept(scored, s.filter_buffer, 1)
    IN {[s EXCEPT !.all_tries = scored,
                  !.filtered_ptrs = p,
                  !.selected_index = IF s.selected_index >= Len(p) THEN 0
                                     ELSE s.selected_index] :
          p \in qsort(kept, scored)}

\* render(): list_height and the scroll_offset it leaves
render(s) ==
    LET list_height == IF s.rows - 8 < 1 THEN 1 ELSE s.rows - 8
        up == IF s.selected_index < s.scroll_offset
                THEN s.selected_index ELSE s.scroll_offset
        down == IF s.selected_index >= up + list_height
                  THEN s.selected_index - list_height + 1 ELSE up
    IN [s EXCEPT !.scroll_offset = down]

\* an answer that begins with 'Y' is taken for "YES"
confirmed_by_first_letter(confirm_input) ==
    confirm_input # <<>> /\ Head(confirm_input) = Head(YES)

\* if (strcmp(zstr_cstr(&confirm_input), "YES") == 0) confirmed = true;
confirmed(confirm_input) == confirm_input = YES

\* for (i = 0; i < filtered_ptrs.length; i++)
\*   if (filtered_ptrs.data[i]->marked_for_delete)
\*     vec_push_zstr(&result.delete_names, zstr_dup(&filtered_ptrs.data[i]->name));
RECURSIVE MarkedNames(_, _)
MarkedNames(s, i) ==
    IF i > Len(s.filtered_ptrs) THEN <<>>
    ELSE LET entry == s.all_tries[s.filtered_ptrs[i]]
         IN (IF entry.marked_for_delete THEN <<entry.name>> ELSE <<>>)
              \o MarkedNames(s, i + 1)

\* the state of a process that runs no selector
NoSelector ==
    [mode |-> "none", all_tries |-> <<>>, filtered_ptrs |-> <<>>,
     filter_buffer |-> <<>>, filter_cursor |-> 0, selected_index |-> 0,
     scroll_offset |-> 0, marked_count |-> 0, confirm_input |-> <<>>,
     confirm_cursor |-> 0, rows |-> DEFAULT_ROWS,
     result |-> "ACTION_CANCEL", delete_names |-> <<>>,
     input |-> [text |-> <<>>, cursor |-> 0]]

\* ---------------------------------------------------------------------------
\* Injected test keys (tui.c): parse_symbolic_key and read_test_key
\* ---------------------------------------------------------------------------
\* the keywords, in upper case
KW_ENTER == <<69, 78, 84, 69, 82>>
KW_RETURN == <<82, 69, 84, 85, 82, 78>>
KW_ESC == <<69, 83, 67>>
KW_ESCAPE == <<69, 83, 67, 65, 80, 69>>
KW_UP == <<85, 80>>
KW_DOWN == <<68, 79, 87, 78>>
KW_LEFT == <<76, 69, 70, 84>>
KW_RIGHT == <<82, 73, 71, 72, 84>>
KW_BACKSPACE == <<66, 65, 67, 75, 83, 80, 65, 67, 69>>
KW_BS == <<66, 83>>
KW_TAB == <<84, 65, 66>>
KW_SPACE == <<83, 80, 65, 67, 69>>
KW_CTRL == <<67, 84, 82, 76, 45>>

\* strncasecmp(a, b, n) == 0 for n = Len(b) <= Len(a)
strncasecmp_eq(a, b) ==
    /\ Len(a) >= Len(b)
    /\ \A i \in 1..Len(b) : tolower(a[i]) = tolower(b[i])

\* #define MATCH(s) (len == (int)strlen(s) && strncasecmp(token, s, len) == 0)
MATCH(token, kw) == Len(token) = Len(kw) /\ strncasecmp_eq(token, kw)

\* static int parse_symbolic_key(const char *token, int len)
parse_symbolic_key(token) ==
    IF MATCH(token, KW_ENTER) \/ MATCH(token, KW_RETURN) THEN ENTER_KEY
    ELSE IF MATCH(token, KW_ESC) \/ MATCH(token, KW_ESCAPE) THEN ESC_KEY
    ELSE IF MATCH(token, KW_UP) THEN ARROW_UP
    ELSE IF MATCH(token, KW_DOWN) THEN ARROW_DOWN
    ELSE IF MATCH(token, KW_LEFT) THEN ARROW_LEFT
    ELSE IF MATCH(token, KW_RIGHT) THEN ARROW_RIGHT
    ELSE IF MATCH(token, KW_BACKSPACE) \/ MATCH(token, KW_BS) THEN BACKSPACE
    ELSE IF MATCH(token, KW_TAB) THEN CH_TAB
    ELSE IF MATCH(token, KW_SPACE) THEN CH_SPACE
    ELSE IF Len(token) >= 6 /\ strncasecmp_eq(token, KW_CTRL)
              /\ LET key == IF token[6] >= CH_a /\ token[6] <= CH_z
                              THEN token[6] - 32 ELSE token[6]
                 IN key >= CH_A /\ key <= CH_Z
      THEN (IF token[6] >= CH_a /\ token[6] <= CH_z THEN token[6] - 32 ELSE token[6])
             - CH_A + 1
    ELSE IF Len(token) = 1 THEN token[1]
    ELSE KEY_EOF

\* static int read_test_key(Mode *mode) on mode->inject_keys that hold one
\* token and no comma: the key of the first call
read_test_key(inject_keys) ==
    IF inject_keys = <<>> THEN KEY_EOF
    ELSE IF \/ (strncasecmp_eq(inject_keys, KW_CTRL) /\ Len(inject_keys) = 6)
            \/ \E kw \in {KW_ENTER, KW_RETURN, KW_ESCAPE, KW_ESC, KW_UP, KW_DOWN,
                          KW_LEFT, KW_RIGHT, KW_BACKSPACE, KW_BS, KW_TAB, KW_SPACE} :
                 MATCH(inject_keys, kw)
      THEN parse_symbolic_key(inject_keys)
    ELSE IF inject_keys[1] = ESC_KEY
      THEN IF Len(inject_keys) >= 3 /\ inject_keys[2] = CH_LBRACKET
             THEN CASE inject_keys[3] = CH_A -> ARROW_UP
                    [] inject_keys[3] = CH_B -> ARROW_DOWN
                    [] inject_keys[3] = CH_C -> ARROW_RIGHT
                    [] inject_keys[3] = CH_D -> ARROW_LEFT
                    [] OTHER -> ESC_KEY
             ELSE ESC_KEY
    ELSE IF inject_keys[1] = ENTER_KEY THEN ENTER_KEY
    ELSE inject_keys[1]

\* no window-size query and no injected keys
AuxIdle ==
    /\ wq = <<>>
    /\ inj = <<>>

\* no frame begun: the state outside the composer runs
CompIdle ==
    /\ tui = tui_begin_screen(DEFAULT_COLS)
    /\ wcall = [state |-> "none", overflow |-> <<>>, prints |-> 0, no_colors |-> FALSE]
    /\ fz = [entry |-> TryEntry(<<>>, 0), query |-> <<>>, now |-> 0, done |-> FALSE]
    /\ sel = NoSelector
    /\ AuxIdle

\* ---------------------------------------------------------------------------
\* Raw terminal controller
\* ---------------------------------------------------------------------------
\* raw = orig_termios with ECHO, ICANON (and IEXTEN, input flags) cleared and
\* VMIN = 1, VTIME = 0
Raw(a) == [a EXCEPT !.icanon = FALSE, !.echo = FALSE, !.vmin = 1, !.vtime = 0]

\* where the setup and teardown segments of run_selector continue
AfterSetup == IF driver = "api" THEN "api" ELSE "rn_begin"
AfterTeardown == IF driver = "api" THEN "api" ELSE "returned"

\* tcgetattr(STDIN_FILENO, &orig_termios) == -1 -> return
enable_raw_mode_tcgetattr ==
    /\ pc = "er_tcgetattr"
    /\ IF tty
         THEN orig_termios' = term_attrs /\ pc' = "er_atexit"
         ELSE orig_termios' = orig_termios /\ pc' = "rs_winch"
    /\ UNCHANGED <<compVars, styleVars, fixedVars, termVars, inVars, flagVars, hookVars, cacheVars, frameVars,
                   rkVars, retVars, sigVars, cntVars, cycleVars, term_size, n_resize,
                   modified>>

\* atexit(emergency_cleanup)
enable_raw_mode_atexit ==
    /\ pc = "er_atexit"
    /\ atexit_n' = atexit_n + 1
    /\ pc' = "er_sigint"
    /\ UNCHANGED <<compVars, styleVars, fixedVars, termVars, inVars, flagVars, handlers, winch_installed,
                   cacheVars, frameVars, rkVars, retVars, sigVars, cntVars, cycleVars,
                   orig_termios, term_size, n_resize, modified>>

\* sigaction(sig, &sa, NULL) with sa.sa_handler = handle_signal
enable_raw_mode_sigaction(sig, here, next) ==
    /\ pc = here
    /\ handlers' = handlers \cup {sig}
    /\ pc' = next
    /\ UNCHANGED <<compVars, styleVars, fixedVars, termVars, inVars, flagVars, atexit_n, winch_installed,
                   cacheVars, frameVars, rkVars, retVars, sigVars, cntVars, cycleVars,
                   orig_termios, term_size, n_resize, modified>>

\* tcsetattr(STDIN_FILENO, TCSAFLUSH, &raw) == -1 -> return
enable_raw_mode_tcsetattr ==
    /\ pc = "er_tcsetattr"
    /\ \E ok \in BOOLEAN :
         IF ok
           THEN /\ term_attrs' = Raw(orig_termios)
                /\ modified' = TRUE
                /\ pc' = "er_flag"
           ELSE /\ UNCHANGED <<term_attrs, modified>>
                /\ pc' = "rs_winch"
    /\ UNCHANGED <<compVars, styleVars, fixedVars, term_alt, term_cursor, inVars, flagVars, hookVars,
                   cacheVars, frameVars, rkVars, retVars, sigVars, cntVars, cycleVars,
                   orig_termios, term_size, n_resize>>

\* raw_mode_enabled = 1
enable_raw_mode_flag ==
    /\ pc = "er_flag"
    /\ raw_mode_enabled' = TRUE
    /\ pc' = "er_hide"
    /\ UNCHANGED <<compVars, styleVars, fixedVars, termVars, inVars, alternate_screen_enabled, hookVars,
                   cacheVars, frameVars, rkVars, retVars, sigVars, cntVars, cycleVars,
                   orig_termios, term_size, n_resize, modified>>

\* hide_cursor()
enable_raw_mode_hide ==
    /\ pc = "er_hide"
    /\ term_cursor' = FALSE
    /\ modified' = TRUE
    /\ pc' = "rs_winch"
    /\ UNCHANGED <<compVars, styleVars, fixedVars, term_attrs, term_alt, inVars, flagVars, hookVars,
                   cacheVars, frameVars, rkVars, retVars, sigVars, cntVars, cycleVars,
                   orig_termios, term_size, n_resize>>

\* run_selector: sigaction(SIGWINCH, &sa, NULL) with sa.sa_handler = handle_winch
run_selector_sigwinch ==
    /\ pc = "rs_winch"
    /\ winch_installed' = TRUE
    /\ pc' = "rs_alt"
    /\ UNCHANGED <<compVars, styleVars, fixedVars, termVars, inVars, flagVars, atexit_n, handlers,
                   cacheVars, frameVars, rkVars, retVars, sigVars, cntVars, cycleVars,
                   orig_termios, term_size, n_resize, modified>>

\* if (!alternate_screen_enabled) WRITE(STDERR_FILENO, "\x1b[?1049h", 9)
enable_alternate_screen_write ==
    /\ pc = "rs_alt"
    /\ IF ~alternate_screen_enabled
         THEN term_alt' = TRUE /\ modified' = TRUE /\ pc' = "rs_alt_flag"
         ELSE UNCHANGED <<term_alt, modified>> /\ pc' = AfterSetup
    /\ UNCHANGED <<compVars, styleVars, fixedVars, term_attrs, term_cursor, inVars, flagVars, hookVars,
                   cacheVars, frameVars, rkVars, retVars, sigVars, cntVars, cycleVars,
                   orig_termios, term_size, n_resize>>

\* alternate_screen_enabled = 1
enable_alternate_screen_flag ==
    /\ pc = "rs_alt_flag"
    /\ alternate_screen_enabled' = TRUE
    /\ pc' = AfterSetup
    /\ UNCHANGED <<compVars, styleVars, fixedVars, termVars, inVars, raw_mode_enabled, hookVars,
                   cacheVars, frameVars, rkVars, retVars, sigVars, cntVars, cycleVars,
                   orig_termios, term_size, n_resize, modified>>

\* if (alternate_screen_enabled) WRITE(STDERR_FILENO, "\x1b[?1049l", 9)
disable_alternate_screen_write ==
    /\ pc = "rs_dalt"
    /\ IF alternate_screen_enabled
         THEN term_alt' = FALSE /\ n_leave' = n_leave + 1 /\ pc' = "rs_dalt_flag"
         ELSE UNCHANGED <<term_alt, n_leave>> /\ pc' = "rs_draw"
    /\ UNCHANGED <<compVars, styleVars, fixedVars, term_attrs, term_cursor, inVars, flagVars, hookVars,
                   cacheVars, frameVars, rkVars, retVars, sigVars, restores, n_restore,
                   cycleVars, orig_termios, term_size, n_resize, modified>>

\* alternate_screen_enabled = 0
disable_alternate_screen_flag ==
    /\ pc = "rs_dalt_flag"
    /\ alternate_screen_enabled' = FALSE
    /\ pc' = "rs_draw"
    /\ UNCHANGED <<compVars, styleVars, fixedVars, termVars, inVars, raw_mode_enabled, hookVars,
                   cacheVars, frameVars, rkVars, retVars, sigVars, cntVars, cycleVars,
                   orig_termios, term_size, n_resize, modified>>

\* if (raw_mode_enabled) tcsetattr(STDIN_FILENO, TCSAFLUSH, &orig_termios)
disable_raw_mode_tcsetattr ==
    /\ pc = "rs_draw"
    /\ IF raw_mode_enabled
         THEN /\ term_attrs' = orig_termios
              /\ restores' = restores \cup {orig_termios}
              /\ n_restore' = n_restore + 1
              /\ pc' = "rs_draw_flag"
         ELSE /\ UNCHANGED <<term_attrs, restores, n_restore>>
              /\ pc' = "rs_reset"
    /\ UNCHANGED <<compVars, styleVars, fixedVars, term_alt, term_cursor, inVars, flagVars, hookVars,
                   cacheVars, frameVars, rkVars, retVars, sigVars, n_leave, cycleVars,
                   orig_termios, term_size, n_resize, modified>>

\* raw_mode_enabled = 0
disable_raw_mode_flag ==
    /\ pc = "rs_draw_flag"
    /\ raw_mode_enabled' = FALSE
    /\ pc' = "rs_draw_show"
    /\ UNCHANGED <<compVars, styleVars, fixedVars, termVars, inVars, alternate_screen_enabled, hookVars,
                   cacheVars, frameVars, rkVars, retVars, sigVars, cntVars, cycleVars,
                   orig_termios, term_size, n_resize, modified>>

\* show_cursor()
disable_raw_mode_show ==
    /\ pc = "rs_draw_show"
    /\ term_cursor' = TRUE
    /\ pc' = "rs_reset"
    /\ UNCHANGED <<compVars, styleVars, fixedVars, term_attrs, term_alt, inVars, flagVars, hookVars,
                   cacheVars, frameVars, rkVars, retVars, sigVars, cntVars, cycleVars,
                   orig_termios, term_size, n_resize, modified>>

\* run_selector: tui_write_reset(stderr); fflush(stderr); ...; return result
run_selector_return ==
    /\ pc = "rs_reset"
    /\ pc' = AfterTeardown
    /\ n_teardown' = n_teardown + 1
    /\ UNCHANGED <<compVars, styleVars, fixedVars, termVars, inVars, flagVars, hookVars, cacheVars, frameVars,
                   rkVars, retVars, sigVars, cntVars, n_enable, n_calls, pre_attrs,
                   orig_termios, term_size, n_resize, modified>>

\* a cleanup that undoes the terminal state and leaves the flags set
emergency_cleanup_keeps_flags ==
    /\ term_alt' = (IF alternate_screen_enabled THEN FALSE ELSE term_alt)
    /\ n_leave' = n_leave + (IF alternate_screen_enabled THEN 1 ELSE 0)
    /\ term_attrs' = (IF raw_mode_enabled THEN orig_termios ELSE term_attrs)
    /\ restores' = (IF raw_mode_enabled THEN restores \cup {orig_termios} ELSE restores)
    /\ n_restore' = n_restore + (IF raw_mode_enabled THEN 1 ELSE 0)
    /\ term_cursor' = TRUE
    /\ UNCHANGED <<raw_mode_enabled, alternate_screen_enabled>>

\* emergency_cleanup(): the effect of one whole call on the terminal, the two
\* 'active' flags and the restore history
emergency_cleanup ==
    /\ term_alt' = (IF alternate_screen_enabled THEN FALSE ELSE term_alt)
    /\ n_leave' = n_leave + (IF alternate_screen_enabled THEN 1 ELSE 0)
    /\ alternate_screen_enabled' = FALSE
    /\ term_attrs' = (IF raw_mode_enabled THEN orig_termios ELSE term_attrs)
    /\ restores' = (IF raw_mode_enabled THEN restores \cup {orig_termios} ELSE restores)
    /\ n_restore' = n_restore + (IF raw_mode_enabled THEN 1 ELSE 0)
    /\ raw_mode_enabled' = FALSE
    /\ term_cursor' = TRUE

\* ---------------------------------------------------------------------------
\* Window size
\* ---------------------------------------------------------------------------
\* An environment variable: unset (getenv returns NULL) or set, with the
\* value atoi() gives it.
NoEnv == [set |-> FALSE, val |-> 0]

\* get_window_size() past the cache test: the <<rows, cols>> it stores.
\* ioctl = [ok, rows, cols] is the TIOCGWINSZ answer, tput = [cols_ok, cols,
\* lines_ok, lines] what the two tput runs print.
QueryWindowSize(env_width, env_height, ioctl, tput) ==
    IF env_width.set /\ env_height.set /\ env_width.val > 0 /\ env_height.val > 0
      THEN <<env_height.val, env_width.val>>
    ELSE IF env_width.set /\ ~env_height.set /\ env_width.val > 0
      THEN <<DEFAULT_ROWS, env_width.val>>
    ELSE IF ioctl.ok /\ ioctl.cols # 0
      THEN <<ioctl.rows, ioctl.cols>>
    ELSE IF tput.cols_ok /\ tput.lines_ok
      THEN <<tput.lines, tput.cols>>
    ELSE <<DEFAULT_ROWS, DEFAULT_COLS>>

\* get_window_size(): the cached value while window_size_valid, else a query
get_window_size(env_width, env_height, ioctl, tput) ==
    IF window_size_valid
      THEN <<cached_rows, cached_cols>>
      ELSE QueryWindowSize(env_width, env_height, ioctl, tput)

\* The terminal device answers TIOCGWINSZ with its current size; tput is not
\* reached.  TRY_WIDTH / TRY_HEIGHT are unset in an interactive run.
DeviceSize == [ok |-> TRUE, rows |-> term_size[1], cols |-> term_size[2]]
NoTput == [cols_ok |-> FALSE, cols |-> 0, lines_ok |-> FALSE, lines |-> 0]

\* render(): get_window_size(&rows, &cols); tui_write_hide_cursor(stderr)
render_begin ==
    /\ pc = "rn_begin"
    /\ LET sz == get_window_size(NoEnv, NoEnv, DeviceSize, NoTput) IN
         /\ frame_size' = sz
         /\ cached_rows' = sz[1]
         /\ cached_cols' = sz[2]
    /\ window_size_valid' = TRUE
    /\ size_at_query' = term_size
    /\ term_cursor' = FALSE
    /\ pc' = "rn_body"
    /\ UNCHANGED <<compVars, styleVars, fixedVars, term_attrs, term_alt, inVars, flagVars, hookVars, rkVars,
                   retVars, sigVars, cntVars, cycleVars, orig_termios, term_size,
                   n_resize, modified>>

\* render(): the frame is written; tui_write_show_cursor(stderr).  read_key()
\* is entered next.
render_end ==
    /\ pc = "rn_body"
    /\ term_cursor' = TRUE
    /\ pc' = "rk_first"
    /\ entry_attrs' = term_attrs
    /\ esc_branch' = FALSE
    /\ UNCHANGED <<compVars, styleVars, fixedVars, term_attrs, term_alt, inVars, flagVars, hookVars,
                   cacheVars, frameVars, original_state, seq, retVars, sigVars, cntVars,
                   cycleVars, orig_termios, term_size, n_resize, modified>>

\* ---------------------------------------------------------------------------
\* Input stream and read(2)
\* ---------------------------------------------------------------------------
ReadSites == {"rk_first", "rk_seq0", "rk_seq1", "rk_sgr", "rk_x10", "rk_digit", "rk_csi"}

AtByte == input # <<>> /\ Head(input) # GAP
AtGap == input # <<>> /\ Head(input) = GAP

\* VMIN = 0, VTIME = 1 is in effect on a terminal in non-canonical mode: a read
\* returns 0 when no byte arrives within 100 ms.
Timed == tty /\ ~term_attrs.icanon /\ term_attrs.vmin = 0

\* the process is inside read(), waiting
Blocked ==
    /\ pc \in ReadSites
    /\ ~eintr
    /\ IF input = <<>> THEN Timed ELSE (AtGap \/ ~head_ready)

\* read() returns 1
GotByte == ~eintr /\ AtByte /\ head_ready

\* read() returns 0 or -1: interrupted, end of input, or timed out
ReadFails == eintr \/ input = <<>> \/ (Timed /\ AtGap)

\* whether the byte that now heads the stream has arrived already
NextReady(rest, r) == IF rest # <<>> /\ Head(rest) # GAP THEN r ELSE TRUE

\* the read took n elements off the stream
Consume(n) ==
    /\ input' = SubSeq(input, n + 1, Len(input))
    /\ \E r \in BOOLEAN : head_ready' = NextReady(SubSeq(input, n + 1, Len(input)), r)
    /\ eintr' = eintr

\* the read took nothing; a pending EINTR is delivered by it
NoConsume == eintr' = FALSE /\ UNCHANGED <<input, head_ready>>

\* the byte in flight arrives
Arrive ==
    /\ pc \in ReadSites
    /\ AtByte
    /\ ~head_ready
    /\ head_ready' = TRUE
    /\ UNCHANGED <<compVars, styleVars, fixedVars, termVars, input, eintr, flagVars, hookVars, cacheVars,
                   frameVars, rkVars, retVars, sigVars, cntVars, cycleVars, pc,
                   orig_termios, term_size, n_resize, modified>>

\* a pause passes while a blocking read waits
GapElapse ==
    /\ pc \in ReadSites
    /\ ~eintr
    /\ ~Timed
    /\ AtGap
    /\ Consume(1)
    /\ UNCHANGED <<compVars, styleVars, fixedVars, termVars, flagVars, hookVars, cacheVars, frameVars,
                   rkVars, retVars, sigVars, cntVars, cycleVars, pc, orig_termios,
                   term_size, n_resize, modified>>

\* ---------------------------------------------------------------------------
\* read_key()
\* ---------------------------------------------------------------------------
IsDigit(b) == b >= CH_0 /\ b <= CH_9
IsCsiFinal(b) == b >= CSI_FINAL_LO /\ b <= CSI_FINAL_HI

\* switch (seq[1]) of ESC [ x
ArrowKey(b) ==
    CASE b = CH_A -> ARROW_UP
      [] b = CH_B -> ARROW_DOWN
      [] b = CH_C -> ARROW_RIGHT
      [] b = CH_D -> ARROW_LEFT
      [] b = CH_H -> HOME_KEY
      [] b = CH_F -> END_KEY
      [] OTHER -> KEY_UNKNOWN

\* switch (seq[1]) of ESC [ digit ~
TildeKey(d) ==
    CASE d = CH_0 + 1 -> HOME_KEY
      [] d = CH_0 + 3 -> DEL_KEY
      [] d = CH_0 + 4 -> END_KEY
      [] d = CH_0 + 5 -> PAGE_UP
      [] d = CH_0 + 6 -> PAGE_DOWN
      [] d = CH_0 + 7 -> HOME_KEY
      [] d = CH_0 + 8 -> END_KEY
      [] OTHER -> KEY_UNKNOWN

\* switch (seq[1]) of ESC O x
Ss3Key(b) ==
    CASE b = CH_H -> HOME_KEY
      [] b = CH_F -> END_KEY
      [] OTHER -> KEY_UNKNOWN

\* Where read_key goes once seq[0], seq[1] are read: the read site that
\* continues the sequence, or "return" with the key.
AfterSeq(s0, s1) ==
    IF s0 = CH_LBRACKET
      THEN IF s1 = CH_LT THEN [to |-> "rk_sgr", key |-> KEY_UNKNOWN]
           ELSE IF s1 = CH_M THEN [to |-> "rk_x10", key |-> KEY_UNKNOWN]
           ELSE IF ArrowKey(s1) # KEY_UNKNOWN THEN [to |-> "return", key |-> ArrowKey(s1)]
           ELSE IF IsDigit(s1) THEN [to |-> "rk_digit", key |-> KEY_UNKNOWN]
           ELSE IF ~IsCsiFinal(s1) THEN [to |-> "rk_csi", key |-> KEY_UNKNOWN]
           ELSE [to |-> "return", key |-> KEY_UNKNOWN]
    ELSE IF s0 = CH_O
      THEN [to |-> "return", key |-> Ss3Key(s1)]
    ELSE [to |-> "return", key |-> KEY_UNKNOWN]

\* return k: back in run_selector with c = k
Return(k) ==
    /\ ret' = k
    /\ keys' = (IF k = KEY_RESIZE THEN keys ELSE Append(keys, k))
    /\ pc' = "rs_react"

\* a first read that forgets nothing on EINTR
read_key_interrupted_keeps_cache == UNCHANGED window_size_valid /\ Return(KEY_RESIZE)

\* if (nread == -1 && errno == EINTR) { window_size_valid = 0; return KEY_RESIZE; }
read_key_interrupted == window_size_valid' = FALSE /\ Return(KEY_RESIZE)

\* while ((nread = read(STDIN_FILENO, &c, 1)) != 1) { ... }  if (c == '\x1b')
read_key_first ==
    /\ pc = "rk_first"
    /\ \/ /\ GotByte
          /\ Consume(1)
          /\ IF Head(input) = ESC_KEY
               THEN pc' = "rk_esc" /\ esc_branch' = TRUE /\ UNCHANGED retVars
               ELSE Return(Head(input)) /\ UNCHANGED esc_branch
          /\ UNCHANGED window_size_valid
       \/ /\ ReadFails
          /\ IF eintr
               THEN read_key_interrupted
               ELSE UNCHANGED window_size_valid /\ Return(KEY_EOF)
          /\ NoConsume
          /\ UNCHANGED esc_branch
    /\ UNCHANGED <<compVars, styleVars, fixedVars, termVars, flagVars, hookVars, cached_rows, cached_cols,
                   frameVars, original_state, seq, entry_attrs, sigVars, cntVars,
                   cycleVars, orig_termios, term_size, n_resize, modified>>

\* tcgetattr(STDIN_FILENO, &original_state); nonblock.c_cc[VMIN] = 0;
\* nonblock.c_cc[VTIME] = 1; tcsetattr(STDIN_FILENO, TCSANOW, &nonblock)
read_key_nonblock ==
    /\ pc = "rk_esc"
    /\ original_state' = (IF tty THEN term_attrs ELSE ZeroAttrs)
    /\ term_attrs' = (IF tty THEN [term_attrs EXCEPT !.vmin = 0, !.vtime = 1]
                             ELSE term_attrs)
    /\ pc' = "rk_seq0"
    /\ UNCHANGED <<compVars, styleVars, fixedVars, term_alt, term_cursor, inVars, flagVars, hookVars,
                   cacheVars, frameVars, seq, entry_attrs, esc_branch, retVars, sigVars,
                   cntVars, cycleVars, orig_termios, term_size, n_resize, modified>>

\* a return that leaves the read mode as read_key() set it
KeepReadMode == UNCHANGED term_attrs

\* tcsetattr(STDIN_FILENO, TCSANOW, &original_state)
RestoreReadMode == term_attrs' = (IF tty THEN original_state ELSE term_attrs)

\* if (read(STDIN_FILENO, &seq[0], 1) != 1) { tcsetattr(...); return '\x1b'; }
read_key_seq0 ==
    /\ pc = "rk_seq0"
    /\ \/ /\ GotByte
          /\ Consume(1)
          /\ seq' = <<Head(input), seq[2]>>
          /\ pc' = "rk_seq1"
          /\ UNCHANGED <<term_attrs, retVars>>
       \/ /\ ReadFails
          /\ NoConsume
          /\ RestoreReadMode
          /\ Return(ESC_KEY)
          /\ UNCHANGED seq
    /\ UNCHANGED <<compVars, styleVars, fixedVars, term_alt, term_cursor, flagVars, hookVars, cacheVars,
                   frameVars, original_state, entry_attrs, esc_branch, sigVars, cntVars,
                   cycleVars, orig_termios, term_size, n_resize, modified>>

\* if (read(STDIN_FILENO, &seq[1], 1) != 1) { tcsetattr(...); return '\x1b'; }
\* tcsetattr(STDIN_FILENO, TCSANOW, &original_state); then the classification
\* of seq[0], seq[1]
read_key_seq1 ==
    /\ pc = "rk_seq1"
    /\ RestoreReadMode
    /\ \/ /\ GotByte
          /\ Consume(1)
          /\ seq' = <<seq[1], Head(input)>>
          /\ LET nxt == AfterSeq(seq[1], Head(input)) IN
               IF nxt.to = "return"
                 THEN Return(nxt.key)
                 ELSE pc' = nxt.to /\ UNCHANGED retVars
       \/ /\ ReadFails
          /\ NoConsume
          /\ Return(ESC_KEY)
          /\ UNCHANGED seq
    /\ UNCHANGED <<compVars, styleVars, fixedVars, term_alt, term_cursor, flagVars, hookVars, cacheVars,
                   frameVars, original_state, entry_attrs, esc_branch, sigVars, cntVars,
                   cycleVars, orig_termios, term_size, n_resize, modified>>

\* SGR mouse: while (read(STDIN_FILENO, &discard, 1) == 1)
\*              if (discard == 'M' || discard == 'm') break;
\* return KEY_UNKNOWN
read_key_sgr ==
    /\ pc = "rk_sgr"
    /\ \/ /\ GotByte
          /\ Consume(1)
          /\ IF Head(input) \in {CH_M, CH_m}
               THEN Return(KEY_UNKNOWN)
               ELSE UNCHANGED <<pc, retVars>>
       \/ /\ ReadFails
          /\ NoConsume
          /\ Return(KEY_UNKNOWN)
    /\ UNCHANGED <<compVars, styleVars, fixedVars, termVars, flagVars, hookVars, cacheVars, frameVars,
                   rkVars, sigVars, cntVars, cycleVars, orig_termios, term_size,
                   n_resize, modified>>

\* number of bytes at the head of the stream before a pause or its end
RECURSIVE RunLen(_)
RunLen(s) == IF s = <<>> \/ Head(s) = GAP THEN 0 ELSE 1 + RunLen(Tail(s))

Min(a, b) == IF a < b THEN a ELSE b

\* X10 mouse: read(STDIN_FILENO, discard, 3); return KEY_UNKNOWN.  The read
\* returns as many of the 3 bytes as have arrived, at least one.
read_key_x10 ==
    /\ pc = "rk_x10"
    /\ \/ /\ GotByte
          /\ \E n \in 1..Min(3, RunLen(input)) : Consume(n)
       \/ /\ ReadFails
          /\ NoConsume
    /\ Return(KEY_UNKNOWN)
    /\ UNCHANGED <<compVars, styleVars, fixedVars, termVars, flagVars, hookVars, cacheVars, frameVars,
                   rkVars, sigVars, cntVars, cycleVars, orig_termios, term_size,
                   n_resize, modified>>

\* if (read(STDIN_FILENO, &seq[2], 1) != 1) return KEY_UNKNOWN;
\* if (seq[2] == '~') switch (seq[1]) ...; char last = seq[2];
read_key_digit ==
    /\ pc = "rk_digit"
    /\ \/ /\ GotByte
          /\ Consume(1)
          /\ IF Head(input) = CH_TILDE THEN Return(TildeKey(seq[2]))
             ELSE IF IsCsiFinal(Head(input)) THEN Return(KEY_UNKNOWN)
             ELSE pc' = "rk_csi" /\ UNCHANGED retVars
       \/ /\ ReadFails
          /\ NoConsume
          /\ Return(KEY_UNKNOWN)
    /\ UNCHANGED <<compVars, styleVars, fixedVars, termVars, flagVars, hookVars, cacheVars, frameVars,
                   rkVars, sigVars, cntVars, cycleVars, orig_termios, term_size,
                   n_resize, modified>>

\* while (!(last >= 0x40 && last <= 0x7E))
\*   if (read(STDIN_FILENO, &last, 1) != 1) break;
\* return KEY_UNKNOWN
read_key_csi ==
    /\ pc = "rk_csi"
    /\ \/ /\ GotByte
          /\ Consume(1)
          /\ IF IsCsiFinal(Head(input))
               THEN Return(KEY_UNKNOWN)
               ELSE UNCHANGED <<pc, retVars>>
       \/ /\ ReadFails
          /\ NoConsume
          /\ Return(KEY_UNKNOWN)
    /\ UNCHANGED <<compVars, styleVars, fixedVars, termVars, flagVars, hookVars, cacheVars, frameVars,
                   rkVars, sigVars, cntVars, cycleVars, orig_termios, term_size,
                   n_resize, modified>>

\* run_selector: what the loop does with c.  No entry is marked for deletion
\* (the streams hold no Ctrl-D), so Escape and Ctrl-C end the loop.
BreakKeys == {KEY_EOF, ESC_KEY, CTRL_C, ENTER_KEY}

run_selector_react ==
    /\ pc = "rs_react"
    /\ pc' = (IF ret \in BreakKeys THEN "rs_dalt" ELSE "rn_begin")
    /\ UNCHANGED <<compVars, styleVars, fixedVars, termVars, inVars, flagVars, hookVars, cacheVars, frameVars,
                   rkVars, retVars, sigVars, cntVars, cycleVars, orig_termios,
                   term_size, n_resize, modified>>

\* ---------------------------------------------------------------------------
\* Signals and process exit
\* ---------------------------------------------------------------------------
SignalPcs == {"sig_handler", "sig_atexit", "sig_flush"}
EndPcs == {"exited", "killed", "hung"}

\* The terminal is resized and SIGWINCH is delivered.  handle_winch() does
\* nothing; with the handler installed (sa_flags = 0, no SA_RESTART) a read
\* that is waiting fails with EINTR.
Resize ==
    /\ n_resize < MaxResize
    /\ pc \notin EndPcs
    /\ pc # "api"
    /\ \E sz \in Sizes \ {term_size} : term_size' = sz
    /\ n_resize' = n_resize + 1
    /\ eintr' = (eintr \/ (winch_installed /\ Blocked))
    /\ UNCHANGED <<compVars, styleVars, fixedVars, termVars, input, head_ready, flagVars, hookVars, cacheVars,
                   frameVars, rkVars, retVars, sigVars, cntVars, cycleVars, pc,
                   orig_termios, modified>>

\* SIGINT, SIGTERM or SIGABRT is delivered to the running selector: to
\* handle_signal if sigaction installed it, else the default action ends the
\* process.
fatal_signal ==
    /\ driver = "selector"
    /\ pc \notin SignalPcs \cup EndPcs
    /\ \E sig \in FatalSignals :
         pc' = (IF sig \in handlers THEN "sig_handler" ELSE "killed")
    /\ int_pc' = pc
    /\ UNCHANGED <<compVars, styleVars, fixedVars, termVars, inVars, flagVars, hookVars, cacheVars, frameVars,
                   rkVars, retVars, sig_calls, cntVars, cycleVars, orig_termios,
                   term_size, n_resize, modified>>

\* handle_signal(sig): exit(128 + sig)
handle_signal ==
    /\ pc = "sig_handler"
    /\ sig_calls' = sig_calls \cup {"exit"}
    /\ pc' = "sig_atexit"
    /\ UNCHANGED <<compVars, styleVars, fixedVars, termVars, inVars, flagVars, hookVars, cacheVars, frameVars,
                   rkVars, retVars, int_pc, cntVars, cycleVars, orig_termios,
                   term_size, n_resize, modified>>

\* exit() called by handle_signal runs the functions registered with
\* atexit(): emergency_cleanup (registered before any handler is installed)
exit_atexit ==
    /\ pc = "sig_atexit"
    /\ emergency_cleanup
    /\ sig_calls' = sig_calls \cup {"write"}
                      \cup (IF raw_mode_enabled THEN {"tcsetattr"} ELSE {})
    /\ pc' = "sig_flush"
    /\ UNCHANGED <<compVars, styleVars, fixedVars, inVars, hookVars, cacheVars, frameVars, rkVars, retVars,
                   int_pc, cycleVars, orig_termios, term_size, n_resize, modified>>

\* exit() then flushes and closes the stdio streams, taking their locks.  If
\* the signal interrupted render() inside a stdio call on stderr the result
\* is undefined: the process ends or never does.
exit_flush ==
    /\ pc = "sig_flush"
    /\ sig_calls' = sig_calls \cup {"fflush"}
    /\ \E end \in (IF int_pc = "rn_body" THEN {"exited", "hung"} ELSE {"exited"}) :
         pc' = end
    /\ UNCHANGED <<compVars, styleVars, fixedVars, termVars, inVars, flagVars, hookVars, cacheVars, frameVars,
                   rkVars, retVars, int_pc, cntVars, cycleVars, orig_termios,
                   term_size, n_resize, modified>>

\* the process ends normally after run_selector returned: exit() runs the
\* atexit functions
process_exit ==
    /\ pc = "returned"
    /\ IF atexit_n > 0
         THEN emergency_cleanup
         ELSE UNCHANGED <<termVars, flagVars, cntVars>>
    /\ pc' = "exited"
    /\ UNCHANGED <<compVars, styleVars, fixedVars, inVars, hookVars, cacheVars, frameVars, rkVars, retVars,
                   sigVars, cycleVars, orig_termios, term_size, n_resize, modified>>

\* ---------------------------------------------------------------------------
\* Call-sequence driver: enable() is the setup segment of run_selector
\* (enable_raw_mode, SIGWINCH handler, enable_alternate_screen), disable() its
\* teardown segment (disable_alternate_screen, disable_raw_mode), and
\* emergency_cleanup() runs as the installed exit hook runs it.
\* ---------------------------------------------------------------------------
api_enable ==
    /\ pc = "api"
    /\ n_calls < MaxCalls
    /\ pc' = "er_tcgetattr"
    /\ n_calls' = n_calls + 1
    /\ IF n_enable = 0 \/ n_teardown > 0
         THEN /\ n_enable' = 1
              /\ n_teardown' = 0
              /\ n_restore' = 0
              /\ n_leave' = 0
              /\ pre_attrs' = term_attrs
         ELSE /\ n_enable' = n_enable + 1
              /\ UNCHANGED <<n_teardown, n_restore, n_leave, pre_attrs>>
    /\ UNCHANGED <<compVars, styleVars, fixedVars, termVars, inVars, flagVars, hookVars, cacheVars, frameVars,
                   rkVars, retVars, sigVars, restores, orig_termios, term_size,
                   n_resize, modified>>

api_disable ==
    /\ pc = "api"
    /\ n_calls < MaxCalls
    /\ pc' = "rs_dalt"
    /\ n_calls' = n_calls + 1
    /\ UNCHANGED <<compVars, styleVars, fixedVars, termVars, inVars, flagVars, hookVars, cacheVars, frameVars,
                   rkVars, retVars, sigVars, cntVars, n_teardown, n_enable, pre_attrs,
                   orig_termios, term_size, n_resize, modified>>

api_emergency ==
    /\ pc = "api"
    /\ n_calls < MaxCalls
    /\ atexit_n > 0
    /\ emergency_cleanup
    /\ n_calls' = n_calls + 1
    /\ n_teardown' = n_teardown + 1
    /\ UNCHANGED <<compVars, styleVars, fixedVars, inVars, hookVars, cacheVars, frameVars, rkVars, retVars,
                   sigVars, n_enable, pre_attrs, pc, orig_termios, term_size, n_resize,
                   modified>>

\* State shared by every initial state: nothing enabled, nothing installed.
InitProgram ==
    /\ orig0 = term_attrs
    /\ pre_attrs = term_attrs
    /\ entry_attrs = term_attrs
    /\ term_alt = FALSE
    /\ term_cursor = TRUE
    /\ eintr = FALSE
    /\ orig_termios = ZeroAttrs
    /\ raw_mode_enabled = FALSE
    /\ alternate_screen_enabled = FALSE
    /\ atexit_n = 0
    /\ handlers = {}
    /\ winch_installed = FALSE
    /\ cached_rows = 0
    /\ cached_cols = 0
    /\ window_size_valid = FALSE
    /\ frame_size = <<0, 0>>
    /\ size_at_query = <<0, 0>>
    /\ original_state = ZeroAttrs
    /\ seq = <<0, 0>>
    /\ ret = 0
    /\ esc_branch = FALSE
    /\ keys = <<>>
    /\ int_pc = "none"
    /\ sig_calls = {}
    /\ modified = FALSE
    /\ restores = {}
    /\ n_restore = 0
    /\ n_leave = 0
    /\ n_teardown = 0
    /\ n_calls = 0
    /\ n_resize = 0

InitAPI ==
    /\ term_attrs \in OrigAttrs
    /\ InitProgram
    /\ StyleIdle
    /\ CompIdle
    /\ tty \in BOOLEAN
    /\ driver = "api"
    /\ pc = "api"
    /\ n_enable = 0
    /\ term_size \in Sizes
    /\ input = <<>>
    /\ input0 = <<>>
    /\ head_ready = TRUE

Setup ==
    \/ enable_raw_mode_tcgetattr
    \/ enable_raw_mode_atexit
    \/ enable_raw_mode_sigaction("SIGINT", "er_sigint", "er_sigterm")
    \/ enable_raw_mode_sigaction("SIGTERM", "er_sigterm", "er_sigabrt")
    \/ enable_raw_mode_sigaction("SIGABRT", "er_sigabrt", "er_tcsetattr")
    \/ enable_raw_mode_tcsetattr
    \/ enable_raw_mode_flag
    \/ enable_raw_mode_hide
    \/ run_selector_sigwinch
    \/ enable_alternate_screen_write
    \/ enable_alternate_screen_flag

Teardown ==
    \/ disable_alternate_screen_write
    \/ disable_alternate_screen_flag
    \/ disable_raw_mode_tcsetattr
    \/ disable_raw_mode_flag
    \/ disable_raw_mode_show
    \/ run_selector_return

NextAPI == api_enable \/ api_disable \/ api_emergency \/ Setup \/ Teardown

SpecAPI == InitAPI /\ [][NextAPI]_vars

\* ---------------------------------------------------------------------------
\* The selector run
\* ---------------------------------------------------------------------------
ReadKey ==
    \/ read_key_first
    \/ read_key_nonblock
    \/ read_key_seq0
    \/ read_key_seq1
    \/ read_key_sgr
    \/ read_key_x10
    \/ read_key_digit
    \/ read_key_csi

Loop == render_begin \/ render_end \/ ReadKey \/ run_selector_react

Environment == Arrive \/ GapElapse \/ Resize

FatalPath == fatal_signal \/ handle_signal \/ exit_atexit \/ exit_flush

\* all sequences over S of length at most n
Seqs(S, n) == UNION {[1..k -> S] : k \in 0..n}

\* Input streams of the full run: one per path through read_key.
RunStreams ==
    { <<>>,
      <<CH_A>>,
      <<GAP, CH_A>>,
      <<ESC_KEY>>,
      <<ESC_KEY, CH_LBRACKET, CH_A>>,
      <<ESC_KEY, CH_LBRACKET, CH_LT, CH_M>>,
      <<ESC_KEY, CH_LBRACKET, CH_M, CH_A>>,
      <<ESC_KEY, CH_LBRACKET, CH_0 + 3, CH_TILDE>>,
      <<ESC_KEY, CH_LBRACKET, CH_0 + 3, CH_0 + 3>> }

\* run_selector() is entered on a terminal in its original mode.
Init ==
    /\ term_attrs = Cooked
    /\ InitProgram
    /\ StyleIdle
    /\ CompIdle
    /\ tty \in BOOLEAN
    /\ driver = "selector"
    /\ pc = "er_tcgetattr"
    /\ n_enable = 1
    /\ term_size \in Sizes
    /\ input \in RunStreams
    /\ input0 = input
    /\ head_ready \in {NextReady(input, r) : r \in BOOLEAN}

Next == Setup \/ Loop \/ Teardown \/ Environment \/ FatalPath \/ process_exit

Spec == Init /\ [][Next]_vars

\* ---------------------------------------------------------------------------
\* The key loop alone: the selector after its setup, reading any stream
\* ---------------------------------------------------------------------------
\* elements of the streams: ESC [ A 3 < M and a pause
KeyAlphabet == {ESC_KEY, CH_LBRACKET, CH_A, CH_0 + 3, CH_LT, CH_M, GAP}

\* The streams read: empty, or an Escape byte and up to MaxLen - 1 elements
\* after it (a byte before the first Escape is decoded by the first read alone).
KeyStreams == {<<>>} \cup {<<ESC_KEY>> \o t : t \in Seqs(KeyAlphabet, MaxLen - 1)}

\* Whole sequences of the decode table, each followed by the byte 'A':
\* ESC [ A..F, ESC O H/F, ESC [ digit ~, a modified key ESC [ 1 ; 5 C, an X10
\* mouse report ESC [ M b x y and an SGR mouse report ESC [ < 3 M.
TableStreams ==
    {<<ESC_KEY, CH_LBRACKET, x, CH_A>> : x \in {CH_A, CH_B, CH_C, CH_D, CH_H, CH_F}}
    \cup {<<ESC_KEY, CH_O, x, CH_A>> : x \in {CH_H, CH_F}}
    \cup {<<ESC_KEY, CH_LBRACKET, CH_0 + d, CH_TILDE, CH_A>> : d \in {1, 3, 4, 5, 6}}
    \cup {<<ESC_KEY, CH_LBRACKET, CH_0 + 1, CH_SEMI, CH_0 + 5, CH_C, CH_A>>,
          <<ESC_KEY, CH_LBRACKET, CH_M, CH_B, CH_C, CH_D, CH_A>>,
          <<ESC_KEY, CH_LBRACKET, CH_LT, CH_0 + 3, CH_M, CH_A>>}

\* The states in which run_selector reaches its loop: raw mode on ("raw"),
\* tcsetattr refused by the terminal ("cooked"), stdin not a terminal
\* ("notty").
InitKeys ==
    /\ \E cfg \in {"raw", "cooked", "notty"} :
         /\ tty = (cfg # "notty")
         /\ term_attrs = (IF cfg = "raw" THEN Raw(Cooked) ELSE Cooked)
         /\ orig_termios = (IF cfg = "notty" THEN ZeroAttrs ELSE Cooked)
         /\ raw_mode_enabled = (cfg = "raw")
         /\ term_cursor = (cfg # "raw")
         /\ atexit_n = (IF cfg = "notty" THEN 0 ELSE 1)
         /\ handlers = (IF cfg = "notty" THEN {} ELSE FatalSignals)
    /\ StyleIdle
    /\ CompIdle
    /\ orig0 = Cooked
    /\ pre_attrs = Cooked
    /\ entry_attrs = term_attrs
    /\ term_alt = TRUE
    /\ alternate_screen_enabled = TRUE
    /\ winch_installed = TRUE
    /\ modified = TRUE
    /\ eintr = FALSE
    /\ cached_rows = 0
    /\ cached_cols = 0
    /\ window_size_valid = FALSE
    /\ frame_size = <<0, 0>>
    /\ size_at_query = <<0, 0>>
    /\ original_state = ZeroAttrs
    /\ seq = <<0, 0>>
    /\ ret = 0
    /\ esc_branch = FALSE
    /\ keys = <<>>
    /\ int_pc = "none"
    /\ sig_calls = {}
    /\ restores = {}
    /\ n_restore = 0
    /\ n_leave = 0
    /\ n_teardown = 0
    /\ n_calls = 0
    /\ n_resize = 0
    /\ n_enable = 1
    /\ driver = "selector"
    /\ pc = "rn_begin"
    /\ term_size = <<DEFAULT_ROWS, DEFAULT_COLS>>
    /\ input \in KeyStreams \cup TableStreams
    /\ input0 = input
    /\ head_ready \in {NextReady(input, r) : r \in BOOLEAN}

NextKeys == Loop \/ Environment

SpecKeys == InitKeys /\ [][NextKeys]_vars

\* ---------------------------------------------------------------------------
\* Style stack runs: the same calls on ss (colors enabled) and ss_nc (colors
\* disabled)
\* ---------------------------------------------------------------------------
\* calls made in one behaviour
MaxStyleCalls == 3

\* the texts printed: none, one character
Texts == {<<>>, <<CH_A>>}

\* flags of all frames on the stack, OR-ed
ActiveFlags(s) == UNION {s.style_flags[i] : i \in 1..s.depth}

RECURSIVE PushN(_, _, _, _)
PushN(s, style, n, no_colors) ==
    IF n = 0 THEN s ELSE PushN(tui_push(s, style, no_colors), style, n - 1, no_colors)

Call(op, style, text) ==
    [op |-> op, style |-> style, text |-> text,
     pre_depth |-> ss.depth, pre_active |-> ActiveFlags(ss), pre_str |-> ss.str]

StyleStep(op, style, text) ==
    /\ pc = "style"
    /\ Len(call_log) < MaxStyleCalls
    /\ call_log' = Append(call_log, Call(op, style, text))
    /\ UNCHANGED <<selectorVars, compVars>>

StylePush ==
    \E style \in Styles :
        /\ StyleStep("push", style, <<>>)
        /\ ss' = tui_push(ss, style, FALSE)
        /\ ss_nc' = tui_push(ss_nc, style, TRUE)

StylePop ==
    /\ StyleStep("pop", NoStyle, <<>>)
    /\ ss' = tui_pop(ss, FALSE)
    /\ ss_nc' = tui_pop(ss_nc, TRUE)

StylePrint ==
    \E style \in Styles, text \in Texts :
        /\ StyleStep("print", style, text)
        /\ ss' = tui_print(ss, style, text, FALSE)
        /\ ss_nc' = tui_print(ss_nc, style, text, TRUE)

StylePrintf ==
    \E style \in {TUI_HIGHLIGHT, NoStyle}, formatted \in Texts :
        /\ StyleStep("printf", style, formatted)
        /\ ss' = tui_printf(ss, style, formatted, FALSE)
        /\ ss_nc' = tui_printf(ss_nc, style, formatted, TRUE)

\* A fresh TuiStyleString, or one on which TUI_SELECTED was pushed until one
\* slot is left.
InitStyle ==
    /\ term_attrs = Cooked
    /\ InitProgram
    /\ tty = FALSE
    /\ driver = "style"
    /\ pc = "style"
    /\ n_enable = 0
    /\ term_size = <<DEFAULT_ROWS, DEFAULT_COLS>>
    /\ input = <<>>
    /\ input0 = <<>>
    /\ head_ready = TRUE
    /\ CompIdle
    /\ \E n \in {0, TUI_STYLE_STACK_MAX - 2} :
         /\ ss = PushN(tui_styles, TUI_SELECTED, n, FALSE)
         /\ ss_nc = PushN(tui_styles, TUI_SELECTED, n, TRUE)
    /\ call_log = <<>>

NextStyle == StylePush \/ StylePop \/ StylePrint \/ StylePrintf

SpecStyle == InitStyle /\ [][NextStyle]_vars

\* A run of pushes followed by their pops, on a fresh TuiStyleString.
MaxNest == 3

NestPush ==
    /\ pc = "nest"
    /\ Len(call_log) < MaxNest
    /\ \A i \in 1..Len(call_log) : call_log[i].op = "push"
    /\ \E style \in Styles :
         /\ call_log' = Append(call_log, Call("push", style, <<>>))
         /\ ss' = tui_push(ss, style, FALSE)
         /\ ss_nc' = tui_push(ss_nc, style, TRUE)
    /\ UNCHANGED <<selectorVars, compVars>>

Pushes == Cardinality({i \in 1..Len(call_log) : call_log[i].op = "push"})

NestPop ==
    /\ pc = "nest"
    /\ Len(call_log) < 2 * Pushes
    /\ call_log' = Append(call_log, Call("pop", NoStyle, <<>>))
    /\ ss' = tui_pop(ss, FALSE)
    /\ ss_nc' = tui_pop(ss_nc, TRUE)
    /\ UNCHANGED <<selectorVars, compVars>>

InitNest ==
    /\ term_attrs = Cooked
    /\ InitProgram
    /\ StyleIdle
    /\ CompIdle
    /\ tty = FALSE
    /\ driver = "style"
    /\ pc = "nest"
    /\ n_enable = 0
    /\ term_size = <<DEFAULT_ROWS, DEFAULT_COLS>>
    /\ input = <<>>
    /\ input0 = <<>>
    /\ head_ready = TRUE

NextNest == NestPush \/ NestPop

SpecNest == InitNest /\ [][NextNest]_vars

\* ---------------------------------------------------------------------------
\* A composed line: tui_begin_screen, tui_screen_line or
\* tui_screen_line_selected, tui_print calls, tui_screen_write_truncated.
\* ---------------------------------------------------------------------------
MaxCols == 4
MaxPrints == 3

\* one codepoint each: 'a', U+00E9, U+2600 (wide), U+1F600 (wide)
CpA == <<CH_a>>
CpEAcute == <<195, 169>>
CpSun == <<226, 152, 128>>
CpGrin == <<240, 159, 152, 128>>
Codepoints == {CpA, CpEAcute, CpSun, CpGrin}

\* the overflow markers: none, "..", U+2026
Dots == <<46, 46>>
Ellipsis == <<226, 128, 166>>
Markers == {<<>>, Dots, Ellipsis}

ComposeStep(from, to, overflow, prints) ==
    /\ pc = "compose"
    /\ wcall.state = from
    /\ wcall' = [state |-> to, overflow |-> overflow, prints |-> prints,
                 no_colors |-> wcall.no_colors]
    /\ UNCHANGED <<selectorVars, ss_nc, call_log, fz, sel, auxVars>>

ScreenLine ==
    /\ ComposeStep("begin", "line", <<>>, 0)
    /\ \E r \in {tui_screen_line(tui),
                  tui_screen_line_selected(tui, wcall.no_colors)} :
         tui' = r.t /\ ss' = r.line

LinePrint ==
    /\ wcall.prints < MaxPrints
    /\ ComposeStep("line", "line", <<>>, wcall.prints + 1)
    /\ \E style \in {NoStyle, TUI_MATCH}, text \in Codepoints :
         ss' = tui_print(ss, style, text, wcall.no_colors)
    /\ UNCHANGED tui

ScreenWriteTruncated ==
    \E overflow \in Markers :
        /\ ComposeStep("line", "written", overflow, wcall.prints)
        /\ LET r == tui_screen_write_truncated(tui, ss, overflow, wcall.no_colors)
           IN tui' = r.t /\ ss' = r.line

InitCompose ==
    /\ term_attrs = Cooked
    /\ InitProgram
    /\ StyleIdle
    /\ tty = FALSE
    /\ driver = "compose"
    /\ pc = "compose"
    /\ n_enable = 0
    /\ term_size = <<DEFAULT_ROWS, DEFAULT_COLS>>
    /\ input = <<>>
    /\ input0 = <<>>
    /\ head_ready = TRUE
    /\ \E cols \in 1..MaxCols : tui = tui_begin_screen(cols)
    /\ wcall = [state |-> "begin", overflow |-> <<>>, prints |-> 0, no_colors |-> FALSE]
    /\ fz = [entry |-> TryEntry(<<>>, 0), query |-> <<>>, now |-> 0, done |-> FALSE]
    /\ sel = NoSelector
    /\ AuxIdle

NextCompose == ScreenLine \/ LinePrint \/ ScreenWriteTruncated

SpecCompose == InitCompose /\ [][NextCompose]_vars

\* ---------------------------------------------------------------------------
\* The same lines composed with tui_no_colors = true, an input field among
\* the things a line may hold
\* ---------------------------------------------------------------------------
\* the fields drawn: empty or "a", with no placeholder or the placeholder "ab"
Fields ==
    {[text |-> text, cursor |-> cursor, placeholder |-> placeholder] :
       text \in {<<>>, <<CH_a>>}, cursor \in 0..1,
       placeholder \in {<<>>, <<CH_a, CH_a + 1>>}}

ScreenInput ==
    /\ wcall.prints < MaxPrints
    /\ ComposeStep("line", "line", <<>>, wcall.prints + 1)
    /\ \E field \in Fields :
         LET r == tui_screen_input(tui, ss, field)
         IN tui' = r.t /\ ss' = r.line

InitPlain ==
    /\ term_attrs = Cooked
    /\ InitProgram
    /\ StyleIdle
    /\ tty = FALSE
    /\ driver = "compose"
    /\ pc = "compose"
    /\ n_enable = 0
    /\ term_size = <<DEFAULT_ROWS, DEFAULT_COLS>>
    /\ input = <<>>
    /\ input0 = <<>>
    /\ head_ready = TRUE
    /\ \E cols \in 1..MaxCols : tui = tui_begin_screen(cols)
    /\ wcall = [state |-> "begin", overflow |-> <<>>, prints |-> 0, no_colors |-> TRUE]
    /\ fz = [entry |-> TryEntry(<<>>, 0), query |-> <<>>, now |-> 0, done |-> FALSE]
    /\ sel = NoSelector
    /\ AuxIdle

NextPlain == ScreenLine \/ LinePrint \/ ScreenInput \/ ScreenWriteTruncated

SpecPlain == InitPlain /\ [][NextPlain]_vars

\* ---------------------------------------------------------------------------
\* One fuzzy_match call on an entry scan_tries made.
\* ---------------------------------------------------------------------------
\* "2024-01-01-"
DatePrefix == <<50, 48, 50, 52, 45, 48, 49, 45, 48, 49, 45>>

\* "ab", "Ab", "a-b", "ba", "b", and two names with the date prefix
Names ==
    {<<CH_a, (CH_a + 1)>>, <<CH_A, (CH_a + 1)>>, <<CH_a, CH_HYPHEN, (CH_a + 1)>>, <<(CH_a + 1), CH_a>>,
     <<(CH_a + 1)>>, DatePrefix \o <<CH_a, (CH_a + 1)>>, DatePrefix \o <<(CH_a + 1)>>}

MaxQuery == 2

\* queries of 'a', 'b', 'A' and '1'
Queries == Seqs({CH_a, (CH_a + 1), CH_A, CH_0 + 1}, MaxQuery)

\* seconds between the entry's mtime and the call
Ages == {0, HOUR - 1, HOUR, DAY, WEEK - 1, WEEK, 2 * WEEK}

FuzzyMatch ==
    /\ pc = "score"
    /\ ~fz.done
    /\ fz' = [fz EXCEPT !.entry = fuzzy_match(fz.entry, fz.query, fz.now),
                        !.done = TRUE]
    /\ UNCHANGED <<selectorVars, styleVars, tui, wcall, sel, auxVars>>

InitScore ==
    /\ term_attrs = Cooked
    /\ InitProgram
    /\ StyleIdle
    /\ tty = FALSE
    /\ driver = "score"
    /\ pc = "score"
    /\ n_enable = 0
    /\ term_size = <<DEFAULT_ROWS, DEFAULT_COLS>>
    /\ input = <<>>
    /\ input0 = <<>>
    /\ head_ready = TRUE
    /\ tui = tui_begin_screen(DEFAULT_COLS)
    /\ wcall = [state |-> "none", overflow |-> <<>>, prints |-> 0, no_colors |-> FALSE]
    /\ \E name \in Names, query \in Queries, age \in Ages :
         fz = [entry |-> TryEntry(name, 0), query |-> query, now |-> age,
               done |-> FALSE]
    /\ sel = NoSelector
    /\ AuxIdle

NextScore == FuzzyMatch

SpecScore == InitScore /\ [][NextScore]_vars

\* ---------------------------------------------------------------------------
\* The key loops of run_selector and render_delete_confirmation, and
\* tui_input_handle_key on a TuiInput. One step is one key: its branch of the
\* loop and, where the loop goes on, the render() of the next iteration.
\* ---------------------------------------------------------------------------
MaxText == 2

\* time(NULL) of the run
SelNow == 2 * WEEK

\* "ba" last touched two weeks ago, "ab" just now, "b-b" a day ago
Tries ==
    <<TryEntry(<<CH_a + 1, CH_a>>, 0),
      TryEntry(<<CH_a, CH_a + 1>>, SelNow),
      TryEntry(<<CH_a + 1, CH_HYPHEN, CH_a + 1>>, SelNow - DAY)>>

\* terminal heights: list_height 1 and 2
Rows == {9, 10}

\* 'a', '-' and the editing keys
EditKeys ==
    {CH_a, CH_HYPHEN, CTRL_A, CTRL_E, CTRL_B, CTRL_F, ARROW_LEFT,
     ARROW_RIGHT, CTRL_K, CTRL_U, CTRL_W, BACKSPACE, CTRL_H, DEL_KEY}

\* the key events run_selector has no branch for
UnboundKeys == {KEY_UNKNOWN, HOME_KEY, END_KEY, PAGE_UP, PAGE_DOWN, DEL_KEY}

\* 'Y', 'E', 'S' and the editing keys
DialogKeys ==
    {YES[1], YES[2], YES[3], ARROW_LEFT, CTRL_E, CTRL_W, BACKSPACE, DEL_KEY,
     CTRL_K}

\* what iscntrl(c) may return: undefined for c outside unsigned char and EOF
IscntrlResults(c) == IF c >= 0 /\ c <= 255 THEN {iscntrl(c)} ELSE BOOLEAN

SelectStep(next) ==
    /\ pc = "select"
    /\ sel' = next
    /\ UNCHANGED <<selectorVars, styleVars, tui, wcall, fz, auxVars>>

\* if (c == KEY_RESIZE) continue;
SelResize ==
    /\ sel.mode = "selector"
    /\ \E rows \in Rows :
         SelectStep(render([sel EXCEPT !.rows = rows]))

\* if (c == -1) break;
SelEof ==
    /\ sel.mode = "selector"
    /\ SelectStep([sel EXCEPT !.mode = "done"])

\* an Escape that ends the selector whether or not entries are marked
SelEscapeAlwaysEnds ==
    /\ sel.mode = "selector"
    /\ SelectStep([sel EXCEPT !.mode = "done"])

\* if (c == ESC_KEY || c == 3)
SelEscape ==
    /\ sel.mode = "selector"
    /\ SelectStep(
         IF sel.marked_count > 0
           THEN render([sel EXCEPT
                  !.all_tries = [i \in 1..Len(sel.all_tries) |->
                                   [sel.all_tries[i] EXCEPT !.marked_for_delete = FALSE]],
                  !.marked_count = 0])
           ELSE [sel EXCEPT !.mode = "done"])

\* a Ctrl-D that counts every press as one more mark
SelToggleMarkCountsUp ==
    /\ sel.mode = "selector"
    /\ SelectStep(
         IF sel.selected_index < Len(sel.filtered_ptrs)
           THEN LET e == sel.filtered_ptrs[sel.selected_index + 1]
                    marked == ~sel.all_tries[e].marked_for_delete
                IN render([sel EXCEPT
                     !.all_tries[e].marked_for_delete = marked,
                     !.marked_count = @ + 1])
           ELSE render(sel))

\* else if (c == 4): toggle the mark of the selected entry
SelToggleMark ==
    /\ sel.mode = "selector"
    /\ SelectStep(
         IF sel.selected_index < Len(sel.filtered_ptrs)
           THEN LET e == sel.filtered_ptrs[sel.selected_index + 1]
                    marked == ~sel.all_tries[e].marked_for_delete
                IN render([sel EXCEPT
                     !.all_tries[e].marked_for_delete = marked,
                     !.marked_count = IF marked THEN @ + 1 ELSE @ - 1])
           ELSE render(sel))

\* else if (c == ENTER_KEY): open the dialog, or leave with ACTION_CD or, where
\* normalize_dir_name() of the filter is not empty, with ACTION_MKDIR
SelEnter ==
    /\ sel.mode = "selector"
    /\ \E normalized_empty \in BOOLEAN :
         SelectStep(
           IF sel.marked_count > 0
             THEN [sel EXCEPT !.mode = "dialog", !.confirm_input = <<>>,
                              !.confirm_cursor = 0]
           ELSE IF sel.selected_index < Len(sel.filtered_ptrs)
             THEN [sel EXCEPT !.mode = "done", !.result = "ACTION_CD"]
           ELSE [sel EXCEPT !.mode = "done",
                            !.result = IF normalized_empty THEN @ ELSE "ACTION_MKDIR"])

\* else if (c == ARROW_UP || c == 16)
SelUp ==
    /\ sel.mode = "selector"
    /\ SelectStep(render([sel EXCEPT
         !.selected_index = IF @ > 0 THEN @ - 1 ELSE @]))

\* else if (c == ARROW_DOWN || c == 14)
SelDown ==
    /\ sel.mode = "selector"
    /\ LET max_idx == Len(sel.filtered_ptrs)
                        + (IF Len(sel.filter_buffer) > 0 THEN 1 ELSE 0)
       IN SelectStep(render([sel EXCEPT
            !.selected_index = IF @ < max_idx - 1 THEN @ + 1 ELSE @]))

\* else if (handle_readline_keybinding(&filter_buffer, &filter_cursor, c))
\*   filter_tries();
\* else if (!iscntrl(c) && c < 128) { insert; filter_cursor++; filter_tries(); }
SelKey(c) ==
    /\ sel.mode = "selector"
    /\ \E cntrl \in IscntrlResults(c) :
         LET r == EditKey(sel.filter_buffer, sel.filter_cursor, c, cntrl)
             edited == [sel EXCEPT !.filter_buffer = r.buffer,
                                   !.filter_cursor = r.cursor]
         IN /\ Len(r.buffer) <= MaxText
            /\ IF r.edited
                 THEN \E filtered \in filter_tries(edited, SelNow) :
                        SelectStep(render(filtered))
                 ELSE SelectStep(render(edited))

SelEdit == \E c \in EditKeys \cup UnboundKeys : SelKey(c)

\* render_delete_confirmation: if (c == -1 || c == ESC_KEY || c == 3) break;
\* and run_selector's continue
DialogCancel ==
    /\ sel.mode = "dialog"
    /\ SelectStep(render([sel EXCEPT !.mode = "selector", !.confirm_input = <<>>,
                                     !.confirm_cursor = 0]))

\* render_delete_confirmation: else if (c == ENTER_KEY), and what run_selector
\* does with the answer
DialogEnter ==
    /\ sel.mode = "dialog"
    /\ SelectStep(
         IF confirmed(sel.confirm_input)
           THEN [sel EXCEPT !.mode = "done", !.result = "ACTION_DELETE",
                            !.delete_names = MarkedNames(sel, 1),
                            !.confirm_input = <<>>, !.confirm_cursor = 0]
           ELSE render([sel EXCEPT !.mode = "selector", !.confirm_input = <<>>,
                                   !.confirm_cursor = 0]))

\* render_delete_confirmation: every other key
\*   else if (handle_readline_keybinding(&confirm_input, &confirm_cursor, c)) {}
\*   else if (!iscntrl(c) && c < 128) { insert; confirm_cursor++; }
DialogKey(c, rows) ==
    /\ sel.mode = "dialog"
    /\ \E cntrl \in IscntrlResults(c) :
         LET r == EditKey(sel.confirm_input, sel.confirm_cursor, c, cntrl)
         IN /\ Len(r.buffer) <= Len(YES)
            /\ SelectStep([sel EXCEPT !.confirm_input = r.buffer,
                                      !.confirm_cursor = r.cursor,
                                      !.rows = rows])

DialogEdit == \E c \in DialogKeys : DialogKey(c, sel.rows)

\* the resize sentinel read in the dialog, the terminal at its new height
DialogResize == \E rows \in Rows : DialogKey(KEY_RESIZE, rows)

\* bool tui_input_handle_key(TuiInput *input, int key)
InputHandleKey ==
    /\ sel.mode = "input"
    /\ \E key \in EditKeys :
         LET r == tui_input_handle_key(sel.input, key)
         IN /\ Len(r.field.text) <= MaxText
            /\ SelectStep([sel EXCEPT !.input = r.field])

InitSelect ==
    /\ term_attrs = Cooked
    /\ InitProgram
    /\ StyleIdle
    /\ tty = FALSE
    /\ driver = "select"
    /\ pc = "select"
    /\ n_enable = 0
    /\ term_size = <<DEFAULT_ROWS, DEFAULT_COLS>>
    /\ input = <<>>
    /\ input0 = <<>>
    /\ head_ready = TRUE
    /\ tui = tui_begin_screen(DEFAULT_COLS)
    /\ wcall = [state |-> "none", overflow |-> <<>>, prints |-> 0, no_colors |-> FALSE]
    /\ fz = [entry |-> TryEntry(<<>>, 0), query |-> <<>>, now |-> 0, done |-> FALSE]
    /\ \/ sel = [NoSelector EXCEPT !.mode = "input"]
       \/ \E rows \in Rows, initial_filter \in {<<>>, <<CH_HYPHEN>>},
             tries \in {Tries, <<>>} :
            \E filtered \in filter_tries(
                  [NoSelector EXCEPT !.mode = "selector", !.all_tries = tries,
                                     !.rows = rows,
                                     !.filter_buffer = initial_filter,
                                     !.filter_cursor = Len(initial_filter)],
                  SelNow) :
              sel = render(filtered)
    /\ AuxIdle

NextSelect ==
    \/ SelResize
    \/ SelEof
    \/ SelEscape
    \/ SelToggleMark
    \/ SelEnter
    \/ SelUp
    \/ SelDown
    \/ SelEdit
    \/ DialogCancel
    \/ DialogEnter
    \/ DialogEdit
    \/ DialogResize
    \/ InputHandleKey

SpecSelect == InitSelect /\ [][NextSelect]_vars

\* ---------------------------------------------------------------------------
\* get_window_size() called with any answers of getenv, ioctl and tput
\* ---------------------------------------------------------------------------
MaxQueries == 2

\* TRY_WIDTH: unset, "0" and "120"; TRY_HEIGHT: unset, "0" and "40"
EnvWidths == {NoEnv, [set |-> TRUE, val |-> 0], [set |-> TRUE, val |-> 120]}
EnvHeights == {NoEnv, [set |-> TRUE, val |-> 0], [set |-> TRUE, val |-> 40]}

\* TIOCGWINSZ: refused, or a winsize of 0 x 0, of 100 columns and no rows, and
\* of 30 rows by 100 columns
IoctlAnswers ==
    {[ok |-> FALSE, rows |-> 0, cols |-> 0],
     [ok |-> TRUE, rows |-> 0, cols |-> 0],
     [ok |-> TRUE, rows |-> 0, cols |-> 100],
     [ok |-> TRUE, rows |-> 30, cols |-> 100]}

\* tput: not there, "tput cols" alone answers, both answer
TputAnswers ==
    {NoTput,
     [cols_ok |-> TRUE, cols |-> 90, lines_ok |-> FALSE, lines |-> 0],
     [cols_ok |-> TRUE, cols |-> 90, lines_ok |-> TRUE, lines |-> 50]}

SizeStep ==
    /\ pc = "size"
    /\ UNCHANGED <<styleVars, tui, wcall, fz, sel, inj, fixedVars, termVars, inVars,
                   flagVars, hookVars, frameVars, rkVars, retVars, sigVars, cntVars,
                   cycleVars, pc, orig_termios, term_size, n_resize, modified>>

\* int get_window_size(int *rows, int *cols)
GetWindowSize ==
    /\ wq.calls < MaxQueries
    /\ LET sz == get_window_size(wq.env_width, wq.env_height, wq.ioctl, wq.tput)
       IN /\ wq' = [wq EXCEPT !.rows = sz[1], !.cols = sz[2], !.calls = @ + 1,
                              !.queried = ~window_size_valid]
          /\ cached_rows' = sz[1]
          /\ cached_cols' = sz[2]
    /\ window_size_valid' = TRUE
    /\ SizeStep

\* read_key(): errno == EINTR: window_size_valid = 0; the terminal has a new
\* size to report
InvalidateSize ==
    /\ window_size_valid
    /\ window_size_valid' = FALSE
    /\ \E ioctl \in IoctlAnswers : wq' = [wq EXCEPT !.ioctl = ioctl]
    /\ UNCHANGED <<cached_rows, cached_cols>>
    /\ SizeStep

InitSize ==
    /\ term_attrs = Cooked
    /\ InitProgram
    /\ StyleIdle
    /\ tty = FALSE
    /\ driver = "size"
    /\ pc = "size"
    /\ n_enable = 0
    /\ term_size = <<DEFAULT_ROWS, DEFAULT_COLS>>
    /\ input = <<>>
    /\ input0 = <<>>
    /\ head_ready = TRUE
    /\ tui = tui_begin_screen(DEFAULT_COLS)
    /\ wcall = [state |-> "none", overflow |-> <<>>, prints |-> 0, no_colors |-> FALSE]
    /\ fz = [entry |-> TryEntry(<<>>, 0), query |-> <<>>, now |-> 0, done |-> FALSE]
    /\ sel = NoSelector
    /\ inj = <<>>
    /\ \E env_width \in EnvWidths, env_height \in EnvHeights,
          ioctl \in IoctlAnswers, tput \in TputAnswers :
         wq = [env_width |-> env_width, env_height |-> env_height, ioctl |-> ioctl,
               tput |-> tput, rows |-> 0, cols |-> 0, calls |-> 0, queried |-> FALSE]

NextSize == GetWindowSize \/ InvalidateSize

SpecSize == InitSize /\ [][NextSize]_vars

\* ---------------------------------------------------------------------------
\* The selector loop fed by read_test_key(): any string of injected keys, read
\* call after call from mode->key_index
\* ---------------------------------------------------------------------------
MaxInject == 3
MaxOverrun == 2
CH_COMMA == 44

\* the bytes of the strings: ',', ESC, '[', 'A', 'U', 'P'
InjectAlphabet == {CH_COMMA, ESC_KEY, CH_LBRACKET, CH_A, KW_UP[1], KW_UP[2]}

\* what a read past the terminating NUL may find in memory
OverrunBytes == {0, CH_A}

\* keys[i]: a byte of the string, its terminating NUL, or memory after it
KeyAt(inject_keys, i, beyond) ==
    IF i < Len(inject_keys) THEN inject_keys[i + 1]
    ELSE IF i = Len(inject_keys) THEN 0
    ELSE beyond

\* while (keys[*idx] == ',') (*idx)++;
RECURSIVE SkipCommas(_, _, _)
SkipCommas(inject_keys, i, beyond) ==
    IF KeyAt(inject_keys, i, beyond) = CH_COMMA
      THEN SkipCommas(inject_keys, i + 1, beyond) ELSE i

\* while (keys[*idx] != ',' && keys[*idx] != '\0') (*idx)++;
RECURSIVE TokenEnd(_, _, _)
TokenEnd(inject_keys, i, beyond) ==
    IF KeyAt(inject_keys, i, beyond) \in {CH_COMMA, 0}
      THEN i ELSE TokenEnd(inject_keys, i + 1, beyond)

\* static int read_test_key(Mode *mode), one call from mode->key_index: the key
\* returned and the index left
read_test_key_at(inject_keys, key_index, beyond) ==
    LET At(i) == KeyAt(inject_keys, i, beyond)
        len == Len(inject_keys)
        idx == SkipCommas(inject_keys, key_index, beyond)
        c == At(idx)
        rest == IF idx < len THEN SubSeq(inject_keys, idx + 1, len) ELSE <<>>
        end == TokenEnd(inject_keys, idx, beyond)
        token == IF idx < len THEN SubSeq(inject_keys, idx + 1, end) ELSE <<>>
        IS_CTRL == /\ strncasecmp_eq(rest, KW_CTRL)
                   /\ At(idx + 5) # 0
                   /\ At(idx + 6) \in {CH_COMMA, 0}
        IS_SYM(kw) == /\ strncasecmp_eq(rest, kw)
                      /\ At(idx + Len(kw)) \in {CH_COMMA, 0}
    IN IF At(key_index) = 0 THEN [key |-> KEY_EOF, key_index |-> key_index]
       ELSE IF c = 0 THEN [key |-> KEY_EOF, key_index |-> idx]
       ELSE IF \/ IS_CTRL
               \/ \E kw \in {KW_ENTER, KW_RETURN, KW_ESCAPE, KW_ESC, KW_UP, KW_DOWN,
                             KW_LEFT, KW_RIGHT, KW_BACKSPACE, KW_BS, KW_TAB, KW_SPACE} :
                    IS_SYM(kw)
         THEN [key |-> parse_symbolic_key(token), key_index |-> end]
       ELSE IF c = ESC_KEY
         THEN IF At(idx + 1) = CH_LBRACKET
                THEN LET final == At(idx + 2)
                     IN [key |-> CASE final = CH_A -> ARROW_UP
                                   [] final = CH_B -> ARROW_DOWN
                                   [] final = CH_C -> ARROW_RIGHT
                                   [] final = CH_D -> ARROW_LEFT
                                   [] OTHER -> ESC_KEY,
                         key_index |-> idx + 3]
                ELSE [key |-> ESC_KEY, key_index |-> idx + 1]
       ELSE IF c = ENTER_KEY THEN [key |-> ENTER_KEY, key_index |-> idx + 1]
       ELSE [key |-> c, key_index |-> idx + 1]

\* c = read_test_key(mode); in the loop of run_selector
ReadTestKey ==
    /\ pc = "inject"
    /\ inj.key_index <= Len(inj.inject_keys) + MaxOverrun
    /\ \E beyond \in OverrunBytes :
         LET r == read_test_key_at(inj.inject_keys, inj.key_index, beyond)
         IN inj' = [inj EXCEPT !.key_index = r.key_index, !.ret = r.key]
    /\ UNCHANGED <<selectorVars, styleVars, tui, wcall, fz, sel, wq>>

InitInject ==
    /\ term_attrs = Cooked
    /\ InitProgram
    /\ StyleIdle
    /\ tty = FALSE
    /\ driver = "inject"
    /\ pc = "inject"
    /\ n_enable = 0
    /\ term_size = <<DEFAULT_ROWS, DEFAULT_COLS>>
    /\ input = <<>>
    /\ input0 = <<>>
    /\ head_ready = TRUE
    /\ tui = tui_begin_screen(DEFAULT_COLS)
    /\ wcall = [state |-> "none", overflow |-> <<>>, prints |-> 0, no_colors |-> FALSE]
    /\ fz = [entry |-> TryEntry(<<>>, 0), query |-> <<>>, now |-> 0, done |-> FALSE]
    /\ sel = NoSelector
    /\ wq = <<>>
    /\ \E inject_keys \in Seqs(InjectAlphabet, MaxInject) :
         inj = [inject_keys |-> inject_keys, key_index |-> 0, ret |-> 0]

NextInject == ReadTestKey

SpecInject == InitInject /\ [][NextInject]_vars

\* ---------------------------------------------------------------------------
\* read_key() as a function of the stream, when no signal is delivered
\* ---------------------------------------------------------------------------
RECURSIVE SkipGaps(_)
SkipGaps(s) == IF s # <<>> /\ Head(s) = GAP THEN SkipGaps(Tail(s)) ELSE s

\* one read(STDIN_FILENO, &b, 1): n = 1 and the byte, or n = 0.  A timed read
\* gives up at a pause; a blocking read waits it out.
RefRead(s, timed) ==
    LET t == IF timed THEN s ELSE SkipGaps(s) IN
      IF t = <<>> \/ Head(t) = GAP
        THEN [n |-> 0, b |-> 0, rest |-> t]
        ELSE [n |-> 1, b |-> Head(t), rest |-> Tail(t)]

\* the SGR mouse loop: what is left of the stream after it
RECURSIVE RefSgr(_)
RefSgr(s) ==
    LET r == RefRead(s, FALSE) IN
      IF r.n = 0 \/ r.b \in {CH_M, CH_m} THEN r.rest ELSE RefSgr(r.rest)

\* the consume-until-terminator loops
RECURSIVE RefCsi(_)
RefCsi(s) ==
    LET r == RefRead(s, FALSE) IN
      IF r.n = 0 \/ IsCsiFinal(r.b) THEN r.rest ELSE RefCsi(r.rest)

\* read(STDIN_FILENO, discard, 3): every stream it can leave
RefX10(s) ==
    LET t == SkipGaps(s) IN
      IF t = <<>> THEN {t}
      ELSE {SubSeq(t, n + 1, Len(t)) : n \in 1..Min(3, RunLen(t))}

\* the digit branch, seq[1] = d already read
RefDigit(d, s) ==
    LET r == RefRead(s, FALSE) IN
      IF r.n = 0 THEN [key |-> KEY_UNKNOWN, rest |-> r.rest]
      ELSE IF r.b = CH_TILDE THEN [key |-> TildeKey(d), rest |-> r.rest]
      ELSE IF IsCsiFinal(r.b) THEN [key |-> KEY_UNKNOWN, rest |-> r.rest]
      ELSE [key |-> KEY_UNKNOWN, rest |-> RefCsi(r.rest)]

\* One read_key() call on stream s: the set of [key, rest] it can return.
\* timed: the sub-reads after ESC run with VMIN = 0, VTIME = 1.
RefReadKey(s, timed) ==
    LET r0 == RefRead(s, FALSE) IN
    IF r0.n = 0 THEN {[key |-> KEY_EOF, rest |-> r0.rest]}
    ELSE IF r0.b # ESC_KEY THEN {[key |-> r0.b, rest |-> r0.rest]}
    ELSE
      LET r1 == RefRead(r0.rest, timed) IN
      IF r1.n = 0 THEN {[key |-> ESC_KEY, rest |-> r1.rest]}
      ELSE
        LET r2 == RefRead(r1.rest, timed) IN
        IF r2.n = 0 THEN {[key |-> ESC_KEY, rest |-> r2.rest]}
        ELSE
          LET nxt == AfterSeq(r1.b, r2.b) IN
            CASE nxt.to = "return" -> {[key |-> nxt.key, rest |-> r2.rest]}
              [] nxt.to = "rk_sgr" -> {[key |-> KEY_UNKNOWN, rest |-> RefSgr(r2.rest)]}
              [] nxt.to = "rk_x10" ->
                   {[key |-> KEY_UNKNOWN, rest |-> t] : t \in RefX10(r2.rest)}
              [] nxt.to = "rk_digit" -> {RefDigit(r2.b, r2.rest)}
              [] nxt.to = "rk_csi" -> {[key |-> KEY_UNKNOWN, rest |-> RefCsi(r2.rest)]}

\* The key sequences a loop of read_key() calls can return on stream s, up to
\* and including end-of-input.
RECURSIVE RefDecode(_, _)
RefDecode(s, timed) ==
    UNION { IF r.key = KEY_EOF
              THEN {<<KEY_EOF>>}
              ELSE {<<r.key>> \o d : d \in RefDecode(r.rest, timed)}
            : r \in RefReadKey(s, timed) }

IsPrefix(a, b) == Len(a) <= Len(b) /\ SubSeq(b, 1, Len(a)) = a

\* ---------------------------------------------------------------------------
\* Properties
\* ---------------------------------------------------------------------------

\* the ways the process ends: run_selector() returned, exit() completed, or the
\* default action of an unhandled signal killed it
Ended == pc \in {"returned", "exited", "killed"}

TerminalRestored == term_attrs = orig0 /\ ~term_alt /\ term_cursor

\* C1: once the run has changed the terminal, every way it ends (return, exit,
\* SIGINT/SIGTERM/SIGABRT at any point) leaves the original attributes
\* restored, the alternate screen left and the cursor shown.
C1_RestoredOnEveryExit == (Ended /\ modified) => TerminalRestored

\* C2: the fatal-signal path makes only direct write() calls and the
\* tcsetattr() restore.
C2_SignalPathDirectOnly == sig_calls \subseteq {"write", "tcsetattr"}

\* C3: whatever resize signals are delivered, the non-resize keys read_key()
\* has returned are the start of a decoding of the same bytes with no signal
\* delivered.
C3_ResizeKeepsKeys ==
    pc = "rs_react" =>
        \E d \in RefDecode(input0, tty /\ raw_mode_enabled) : IsPrefix(keys, d)

ShortTimeout(a) == a.vmin = 0 /\ a.vtime = 1

\* C4: a return of read_key() through the Escape branch leaves VMIN and VTIME
\* (the whole attribute set) as they were on entry, and the VMIN = 0,
\* VTIME = 1 mode is in effect at no point outside read_key() or before its
\* Escape branch.
C4_ReadModeRestored ==
    /\ (pc = "rs_react" /\ esc_branch) => term_attrs = entry_attrs
    /\ pc \in {"rs_react", "rn_begin", "rn_body", "rk_first"} =>
           (tty => ~ShortTimeout(term_attrs))

\* C4 witness: on a raw terminal, the second sub-read timed out after '[' and
\* read_key() returned ESC
C4_Witness ==
    /\ pc = "rs_react" /\ esc_branch /\ ret = ESC_KEY
    /\ tty /\ raw_mode_enabled
    /\ seq[1] = CH_LBRACKET
    /\ ShortTimeout(original_state) = FALSE
    /\ input # <<>>

\* C5: a first read interrupted by a signal makes read_key() return
\* KEY_RESIZE in that step, with the cached size invalid and the stream
\* untouched.
C5_InterruptedFirstRead ==
    [][(pc = "rk_first" /\ eintr /\ pc' # pc) =>
          /\ pc' = "rs_react"
          /\ ret' = KEY_RESIZE
          /\ ~window_size_valid'
          /\ input' = input
          /\ keys' = keys]_vars

\* C5 witness: KEY_RESIZE returned with bytes still pending and a size cached
\* by the frame before
C5_Witness ==
    /\ pc = "rs_react" /\ ret = KEY_RESIZE
    /\ ~window_size_valid /\ cached_rows > 0
    /\ input # <<>> /\ Head(input) # GAP

\* C6: every size query of the loop returns the terminal's dimensions at the
\* time of the query; a size cached before a resize is not returned after it.
C6_SizeQueryIsCurrent == frame_size = size_at_query

\* C7: every restore writes the attributes the terminal had before the first
\* enable.
C7_RestoreWritesOriginal == restores \subseteq {orig0}

AfterFirstTeardown == n_enable = 1 /\ n_teardown >= 1

\* C8: after one enable, once a disable or an emergency cleanup has run, the
\* terminal is as before the enable, both flags are false, the attributes
\* were written back once at most (not at all when raw mode was never set)
\* and the alternate screen was left once;
\* every later step of a disable or an emergency cleanup changes neither the
\* terminal nor the flags.
C8_DisableIdempotent ==
    /\ [](AfterFirstTeardown /\ pc = "api" =>
            /\ term_attrs = pre_attrs /\ ~term_alt /\ term_cursor
            /\ ~raw_mode_enabled /\ ~alternate_screen_enabled
            /\ n_restore <= 1
            /\ n_leave = 1)
    /\ [][AfterFirstTeardown => UNCHANGED <<termVars, flagVars>>]_vars

\* C8 witness: a disable, an emergency cleanup and one more call have run
\* after one enable on a terminal
C8_Witness ==
    /\ pc = "api" /\ tty /\ n_enable = 1 /\ n_teardown >= 3
    /\ n_restore = 1 /\ n_leave = 1

TerminalModified == term_attrs # orig0 \/ ~term_cursor \/ term_alt

\* C9: the terminal is modified (raw attributes, hidden cursor or alternate
\* screen) in no state where the exit hook or one of the SIGINT, SIGTERM,
\* SIGABRT handlers is missing.
C9_HandlersBeforeMutation ==
    TerminalModified => (atexit_n > 0 /\ handlers = FatalSignals)

\* C10: when stdin is not a terminal, setup is a no-op: at the first frame no
\* handler is installed, no attribute changed, the alternate screen is not
\* entered, the cursor is shown and both flags are false.
C10_NoTtyEnableIsNoOp ==
    (~tty /\ pc = "rn_begin") =>
        /\ atexit_n = 0 /\ handlers = {}
        /\ term_attrs = orig0 /\ ~term_alt /\ term_cursor
        /\ ~raw_mode_enabled /\ ~alternate_screen_enabled

\* ---------------------------------------------------------------------------
\* Properties of the style stack
\* ---------------------------------------------------------------------------
Calls == Len(call_log)
LastCall == call_log[Calls]
MaxDepth == TUI_STYLE_STACK_MAX - 1

RECURSIVE FramesFrom(_, _, _)
FramesFrom(s, t, i) ==
    IF i > s.depth THEN t ELSE FramesFrom(s, SgrApply(t, s.style_strs[i]), i + 1)

Tracked(t) == <<t.bold, t.dim, t.fg, t.bg>>

\* C12: after a pop or a print with colors enabled, the bold, dim, foreground
\* and background state the buffer leaves on the terminal is the state the
\* frames still on the stack define.
C12_StreamMatchesStack ==
    (Calls >= 1 /\ LastCall.op \in {"pop", "print", "printf"})
    => Tracked(TermAfter(TermDefault, ss.str)) = Tracked(FramesFrom(ss, TermDefault, 1))

Attrs == {"bold", "dim", "italic", "fg", "bg"}
TrackedAttrs == {"bold", "dim", "fg", "bg"}
AllOn == [bold |-> TRUE, dim |-> TRUE, italic |-> TRUE, fg |-> <<31>>, bg |-> <<41>>]

\* the attributes a style code turns on, and those it turns off
TurnsOn(p) == {a \in Attrs : SgrApply(TermDefault, p)[a] # TermDefault[a]}
TurnsOff(p) == {a \in Attrs : SgrApply(AllOn, p)[a] = TermDefault[a]}

\* what the last call appended to the buffer
Emitted == SubSeq(ss.str, Len(LastCall.pre_str) + 1, Len(ss.str))

\* attribute a, turned on by the style the last print emitted first, is turned
\* off by a code emitted after it
Matched(a) ==
    \E i \in 2..Len(Emitted) : Emitted[i].sgr /\ a \in TurnsOff(Emitted[i].p)

\* C13 as stated: every attribute the style of a print turned on is reset by
\* that print, whatever the text.
C13_PrintLeavesNoCode ==
    (Calls >= 1 /\ LastCall.op = "print")
    => \A a \in TurnsOn(LastCall.style) : Matched(a)

\* C13: every bold, dim, foreground or background attribute the style of a
\* print turned on is reset by that print, also when the text is zero bytes
\* long; a code outside these four categories is not reset.
C13_PrintResetsTracked ==
    (Calls >= 1 /\ LastCall.op = "print")
    => \A a \in TurnsOn(LastCall.style) \cap TrackedAttrs : Matched(a)

\* C13 witness: print(TUI_HIGHLIGHT, "") on a stack with frames has emitted
\* the style and its resets
C13_Witness ==
    /\ Calls >= 1 /\ LastCall.op = "print"
    /\ LastCall.text = <<>> /\ LastCall.style = TUI_HIGHLIGHT
    /\ ss.depth > 0
    /\ Len(Emitted) >= 3

StripStyles(str) == SelectSeq(str, LAMBDA item : ~item.sgr)

\* C14: with colors disabled the buffer is the colors-enabled buffer without
\* its style codes, and depth and per-frame flags are those of the
\* colors-enabled run after every call.
C14_NoColorsSameBookkeeping ==
    /\ ss_nc.depth = ss.depth
    /\ ss_nc.style_flags = ss.style_flags
    /\ ss_nc.str = StripStyles(ss.str)

\* C14 witness: a push, a styled print of a text and a pop have been made
C14_Witness ==
    /\ Calls = 3
    /\ call_log[1].op = "push" /\ call_log[1].style = TUI_SELECTED
    /\ call_log[2].op = "print" /\ call_log[2].style = TUI_HIGHLIGHT
    /\ call_log[2].text # <<>>
    /\ call_log[3].op = "pop"
    /\ ss_nc.str # <<>> /\ Len(ss.str) > Len(ss_nc.str)

\* the run so far: pushes, then as many pops, from an empty stack and buffer
Balanced ==
    /\ pc = "nest"
    /\ Pushes >= 1
    /\ Calls = 2 * Pushes

\* C15 as stated: after pushes and their matching pops no attribute a pushed
\* style turned on is active.
C15_NestLeavesNothing == Balanced => TermAfter(TermDefault, ss.str) = TermDefault

\* C15: after pushes and their matching pops, from an empty stack and buffer,
\* no bold, dim, foreground or background attribute is active; an attribute
\* outside these four categories stays on.
C15_NestLeavesNoTracked ==
    Balanced => Tracked(TermAfter(TermDefault, ss.str)) = Tracked(TermDefault)

\* C15 witness: push(TUI_HIGHLIGHT); push(TUI_SELECTED); pop(); pop()
C15_Witness ==
    /\ Balanced /\ Calls = 4
    /\ call_log[1].style = TUI_HIGHLIGHT
    /\ call_log[2].style = TUI_SELECTED
    /\ ss.depth = 0
    /\ Len(ss.str) = 5

\* C16: depth stays within 0..TUI_STYLE_STACK_MAX and only slots of the
\* arrays are read or written, with colors enabled and disabled.
C16_DepthAndSlotsBounded ==
    /\ ss.depth \in 0..TUI_STYLE_STACK_MAX
    /\ ss.touched \subseteq Slots
    /\ ss_nc.depth \in 0..TUI_STYLE_STACK_MAX
    /\ ss_nc.touched \subseteq Slots

\* C16 witness: the last slot was written and a further push was made
C16_Witness ==
    /\ Calls >= 2
    /\ LastCall.op = "push" /\ LastCall.style # NoStyle
    /\ LastCall.pre_depth = MaxDepth
    /\ (TUI_STYLE_STACK_MAX - 1) \in ss.touched

\* C17: a push at maximum depth and a pop at depth 0 leave depth, frames and
\* buffer as they were.
C17_OverflowAndUnderflowIgnored ==
    [][(Len(call_log') > Calls) =>
          LET c == call_log'[Len(call_log')] IN
            ((c.op = "push" /\ ss.depth >= MaxDepth) \/ (c.op = "pop" /\ ss.depth = 0))
            => (ss' = ss /\ ss_nc' = ss_nc)]_vars

\* C17 witness: a push of a style was made on a full stack, and a pop on an
\* empty one
C17_Witness ==
    /\ Calls >= 1
    /\ \/ LastCall.op = "push" /\ LastCall.style = TUI_BOLD
          /\ LastCall.pre_depth = MaxDepth /\ ss.depth = MaxDepth
       \/ LastCall.op = "pop" /\ LastCall.pre_depth = 0 /\ ss.depth = 0
          /\ Calls >= 2

\* what is left of the stream once its first n bytes are consumed
Rest(n) == SubSeq(input0, n + 1, Len(input0))

\* the first call returned k for the first n bytes of the stream and consumed
\* nothing more: the byte 'A' that follows them is the next key
Decoded(k, n) ==
    /\ keys[1] = k
    /\ Len(keys) = 1 => input = Rest(n)
    /\ (Len(keys) >= 2 /\ Len(input0) > n /\ input0[n + 1] = CH_A) => keys[2] = CH_A

\* read_key() has returned a key to the loop
KeyReturned == pc = "rs_react" /\ Len(keys) >= 1

X10Report == <<ESC_KEY, CH_LBRACKET, CH_M, CH_B, CH_C, CH_D>>
SgrReport == <<ESC_KEY, CH_LBRACKET, CH_LT, CH_0 + 3, CH_M>>

\* C18: a mouse report followed by the byte 'A' gives the caller the key 'A'
\* as its first event, with the whole report consumed and no event for it.
C18_MouseReportTransparent ==
    (KeyReturned /\ input0 \in {X10Report \o <<CH_A>>, SgrReport \o <<CH_A>>})
    => /\ keys[1] = CH_A
       /\ Len(keys) = 1 => input = <<>>

\* the fixed table of ESC [ x and ESC O x
EscapeTable ==
    {[bytes |-> <<ESC_KEY, CH_LBRACKET, CH_A>>, key |-> ARROW_UP],
     [bytes |-> <<ESC_KEY, CH_LBRACKET, CH_B>>, key |-> ARROW_DOWN],
     [bytes |-> <<ESC_KEY, CH_LBRACKET, CH_C>>, key |-> ARROW_RIGHT],
     [bytes |-> <<ESC_KEY, CH_LBRACKET, CH_D>>, key |-> ARROW_LEFT],
     [bytes |-> <<ESC_KEY, CH_LBRACKET, CH_H>>, key |-> HOME_KEY],
     [bytes |-> <<ESC_KEY, CH_LBRACKET, CH_F>>, key |-> END_KEY],
     [bytes |-> <<ESC_KEY, CH_O, CH_H>>, key |-> HOME_KEY],
     [bytes |-> <<ESC_KEY, CH_O, CH_F>>, key |-> END_KEY]}

\* the stream is an ESC and then nothing before the timeout of a raw terminal
EscAlone ==
    /\ tty /\ raw_mode_enabled
    /\ input0 # <<>> /\ Head(input0) = ESC_KEY
    /\ (Len(input0) = 1 \/ input0[2] = GAP)

\* C19: an ESC with no byte after it within the timeout is returned as one ESC
\* key, and ESC [ A/B/C/D/H/F and ESC O H/F are returned as up, down, right,
\* left, home, end and home, end, each call consuming the bytes of its
\* sequence and no more.
C19_EscapeTable ==
    KeyReturned =>
        /\ EscAlone => Decoded(ESC_KEY, 1)
        /\ \A e \in EscapeTable : IsPrefix(e.bytes, input0) => Decoded(e.key, 3)

\* the fixed table of ESC [ digit ~
TildeTable ==
    {[digit |-> 1, key |-> HOME_KEY], [digit |-> 3, key |-> DEL_KEY],
     [digit |-> 4, key |-> END_KEY], [digit |-> 5, key |-> PAGE_UP],
     [digit |-> 6, key |-> PAGE_DOWN]}

ModifiedKey == <<ESC_KEY, CH_LBRACKET, CH_0 + 1, CH_SEMI, CH_0 + 5, CH_C>>

\* C20: ESC [ digit ~ is returned as the key of the table, and a modified key
\* ESC [ 1 ; 5 C is consumed through its final letter and returned as one
\* unknown event, the key after it being the byte that follows the sequence.
C20_DigitSequences ==
    KeyReturned =>
        /\ \A e \in TildeTable :
             IsPrefix(<<ESC_KEY, CH_LBRACKET, CH_0 + e.digit, CH_TILDE>>, input0)
             => Decoded(e.key, 4)
        /\ IsPrefix(ModifiedKey, input0) => Decoded(KEY_UNKNOWN, Len(ModifiedKey))

\* the line has been committed
Written == pc = "compose" /\ wcall.state = "written"

\* escape sequences removed: ESC [, parameter and intermediate bytes, and the
\* final byte 0x40..0x7E (ECMA-48)
RECURSIVE DropSequence(_)
DropSequence(b) ==
    IF b = <<>> THEN <<>>
    ELSE IF Head(b) >= 64 /\ Head(b) <= 126 THEN Tail(b)
    ELSE DropSequence(Tail(b))

RECURSIVE StripEscapes(_)
StripEscapes(b) ==
    IF b = <<>> THEN <<>>
    ELSE IF Head(b) = ESC_KEY /\ Len(b) >= 2 /\ b[2] = CH_LBRACKET
      THEN StripEscapes(DropSequence(SubSeq(b, 3, Len(b))))
    ELSE <<Head(b)>> \o StripEscapes(Tail(b))

\* the number of bytes of the codepoint a lead byte starts, 0 for a byte that
\* starts none
LeadLen(c) ==
    IF c < 128 THEN 1
    ELSE IF c >= 194 /\ c <= 223 THEN 2
    ELSE IF c >= 224 /\ c <= 239 THEN 3
    ELSE IF c >= 240 /\ c <= 244 THEN 4
    ELSE 0

\* b is a sequence of complete UTF-8 encoded codepoints
RECURSIVE Utf8Valid(_)
Utf8Valid(b) ==
    IF b = <<>> THEN TRUE
    ELSE LET n == LeadLen(Head(b)) IN
         /\ n >= 1
         /\ Len(b) >= n
         /\ \A k \in 2..n : b[k] >= 128 /\ b[k] <= 191
         /\ Utf8Valid(SubSeq(b, n + 1, Len(b)))

\* the bytes written before the reset code or the erase code that ends the
\* line: a cut at an item of the line
CutAtItem ==
    \E k \in 0..Len(ss.str) :
        LET kept == zstr_cstr(SubSeq(ss.str, 1, k)) IN
          \/ tui.file = kept \o ANSI_CLR \o <<NEWLINE>>
          \/ tui.file = kept \o SgrBytes(ANSI_RESET) \o wcall.overflow
                        \o ANSI_CLR \o <<NEWLINE>>

\* C21: the committed line with its escape sequences removed is a sequence of
\* complete UTF-8 codepoints, and it ends at the end of a codepoint or escape
\* sequence of the line.
C21_TruncationSafe ==
    Written => (Utf8Valid(StripEscapes(tui.file)) /\ CutAtItem)

\* C21 witness: a line ending in a four-byte codepoint was cut before it and a
\* three-byte marker written
C21_Witness ==
    /\ Written
    /\ wcall.overflow = Ellipsis
    /\ Len(ss.str) >= 2
    /\ ss.str[Len(ss.str)] = Text(CpGrin)
    /\ Len(tui.file) < Len(zstr_cstr(ss.str))
    /\ tui.file # SgrBytes(ANSI_RESET) \o Ellipsis \o ANSI_CLR \o <<NEWLINE>>

\* display widths by table: the wide codepoints take two columns
ItemWidth(item) ==
    IF item.sgr THEN 0 ELSE IF item.p \in {CpSun, CpGrin} THEN 2 ELSE 1

RECURSIVE LineWidth(_)
LineWidth(str) == IF str = <<>> THEN 0 ELSE ItemWidth(Head(str)) + LineWidth(Tail(str))

MarkerWidth(m) == IF m = <<>> THEN 0 ELSE IF m = Ellipsis THEN 1 ELSE Len(m)

\* the column budget left for content beside the marker
ContentBudget ==
    IF tui.cols - MarkerWidth(wcall.overflow) < 0 THEN 0
    ELSE tui.cols - MarkerWidth(wcall.overflow)

\* the first k items are the longest run of items that fits the budget
LongestFit(k) ==
    /\ LineWidth(SubSeq(ss.str, 1, k)) <= ContentBudget
    /\ \A j \in (k + 1)..Len(ss.str) :
         ~ss.str[j].sgr => LineWidth(SubSeq(ss.str, 1, j)) > ContentBudget

\* C22: a line that fits the column budget is committed whole; one that does
\* not is cut at the budget less the display width of the marker, and content
\* plus marker take at most the budget.
C22_CommittedWithinBudget ==
    Written =>
        IF LineWidth(ss.str) <= tui.cols
          THEN tui.file = zstr_cstr(ss.str) \o ANSI_CLR \o <<NEWLINE>>
          ELSE \E k \in 0..Len(ss.str) :
                 /\ tui.file = zstr_cstr(SubSeq(ss.str, 1, k)) \o SgrBytes(ANSI_RESET)
                               \o wcall.overflow \o ANSI_CLR \o <<NEWLINE>>
                 /\ LongestFit(k)
                 /\ LineWidth(SubSeq(ss.str, 1, k)) + MarkerWidth(wcall.overflow)
                    <= tui.cols

\* fuzzy_match has returned
Scored == pc = "score" /\ fz.done

\* q is an ordered subsequence of t
RECURSIVE IsSubsequence(_, _)
IsSubsequence(q, t) ==
    IF q = <<>> THEN TRUE
    ELSE IF t = <<>> THEN FALSE
    ELSE IF Head(q) = Head(t) THEN IsSubsequence(Tail(q), Tail(t))
    ELSE IsSubsequence(q, Tail(t))

Lower(t) == [i \in 1..Len(t) |-> IF t[i] >= 65 /\ t[i] <= 90 THEN t[i] + 32 ELSE t[i]]

QueryMatches == IsSubsequence(Lower(fz.query), Lower(fz.entry.name))

\* C24: the score is 0 exactly when the query, compared without case, is not
\* an ordered subsequence of the name.
C24_ZeroIffNoMatch == Scored => ((fz.entry.score = 0) <=> ~QueryMatches)

\* C25: with name and query fixed, a call made later after the last access
\* gives a strictly lower score.
C25_RecencyStrictlyDecreasing ==
    (Scored /\ QueryMatches) =>
        \A later \in Ages :
            later > fz.now
            => fuzzy_match(fz.entry, fz.query, later).score < fz.entry.score

\* 3.0 / sqrt(hours_since_access + 1), in thousandths
RecencyBonus(age) ==
    LET hundredths == (age * 100) \div HOUR + 100
    IN (3 * ScoreUnit * 100) \div Isqrt(hundredths * 100)

\* the score accumulated over the matched characters alone
MatchScore ==
    MatchWalk(fz.entry.name, fz.query, 0,
              [score |-> 0, query_idx |-> 0, last_pos |-> -1, rendered |-> <<>>])

\* (match score x query_length / (last_match_position + 1)
\*  x 10 / (name_length + 10)) + 2.0 with the prefix + the recency bonus
StatedScore ==
    (((MatchScore.score * Len(fz.query)) \div (MatchScore.last_pos + 1)) * 10)
        \div (Len(fz.entry.name) + 10)
    + (IF IsPrefix(DatePrefix, fz.entry.name)
         THEN 2 * ScoreUnit ELSE 0)
    + RecencyBonus(fz.now - fz.entry.mtime)

\* C26: for a matching non-empty query the score is the match score under the
\* two multipliers, plus the prefix bonus and the recency bonus unscaled (to
\* within 0.005, the rounding of the thousandths).
C26_BonusesAfterMultipliers ==
    (Scored /\ fz.query # <<>> /\ QueryMatches) =>
        /\ fz.entry.score - StatedScore <= 5
        /\ StatedScore - fz.entry.score <= 5

\* C27: the rendered text of a name that starts with the structured prefix
\* begins with the muted style, for every query.
C27_PrefixMuted ==
    (Scored /\ IsPrefix(DatePrefix, fz.entry.name))
    => IsPrefix(TOKEN_DIM, fz.entry.rendered)

\* C23: the cursor of every edited text lies within [0, length of the text]:
\* the TuiInput's, the filter's and the confirmation's.
C23_CursorWithinText ==
    pc = "select" =>
        /\ sel.input.cursor \in 0..Len(sel.input.text)
        /\ sel.filter_cursor \in 0..Len(sel.filter_buffer)
        /\ sel.confirm_cursor \in 0..Len(sel.confirm_input)

\* a TuiInput edited up to the longest text, the cursor inside it
C23_Witness ==
    /\ pc = "select"
    /\ sel.mode = "input"
    /\ sel.input.text = <<CH_HYPHEN, CH_a>>
    /\ sel.input.cursor = 1

\* the entries of all_tries whose name holds the filter as a subsequence,
\* letter case apart
Matching ==
    {i \in 1..Len(sel.all_tries) :
        IsSubsequence(Lower(sel.filter_buffer), Lower(sel.all_tries[i].name))}

\* C28: with a non-empty filter the list shows exactly the entries whose name
\* holds the filter as a case-insensitive ordered subsequence, each once, in
\* the order of non-increasing score.
C28_FilteredAndSorted ==
    (pc = "select" /\ sel.mode # "input" /\ sel.filter_buffer # <<>>) =>
        LET shown == sel.filtered_ptrs
        IN /\ {shown[i] : i \in 1..Len(shown)} = Matching
           /\ Cardinality(Matching) = Len(shown)
           /\ \A i, j \in 1..Len(shown) :
                i < j => sel.all_tries[shown[i]].score >= sel.all_tries[shown[j]].score

\* the filter "a" shows "ab" before "ba" and hides "b-b"
C28_Witness ==
    /\ pc = "select"
    /\ sel.mode = "selector"
    /\ sel.filter_buffer = <<CH_a>>
    /\ sel.filtered_ptrs = <<2, 1>>

\* what the user has typed, chosen and marked
UserState(s) ==
    [filter_buffer |-> s.filter_buffer, filter_cursor |-> s.filter_cursor,
     confirm_input |-> s.confirm_input, confirm_cursor |-> s.confirm_cursor,
     selected_index |-> s.selected_index,
     marks |-> [i \in 1..Len(s.all_tries) |-> s.all_tries[i].marked_for_delete],
     marked_count |-> s.marked_count]

\* the rows of the list a terminal of the given height shows
ListHeight(rows) == IF rows > 9 THEN rows - 8 ELSE 1

\* offset shows the selected row, and no offset nearer to the old one does
ScrollFollows(old, offset, selected, height) ==
    /\ selected >= offset
    /\ selected < offset + height
    /\ \A o \in 0..selected :
         (selected < o + height /\ o # offset)
         => (IF o > old THEN o - old ELSE old - o)
              > (IF offset > old THEN offset - old ELSE old - offset)

\* C29: a step that handles the resize sentinel, in the selector or in the
\* delete-confirmation dialog, leaves the filter text, the confirmation text,
\* both cursors, the selected index and the marks as they were, and moves the
\* scroll offset only as far as the selected row needs to stay visible.
C29_ResizeKeepsUserState ==
    [][(SelResize \/ DialogResize) =>
          /\ UserState(sel') = UserState(sel)
          /\ sel'.mode = sel.mode
          /\ sel.mode = "selector" =>
               ScrollFollows(sel.scroll_offset, sel'.scroll_offset,
                             sel.selected_index, ListHeight(sel'.rows))]_vars

\* the tokens of the symbolic grammar with the bytes their keys send:
\* carriage return, ESC, the four arrow sequences, DEL, tab, space, the
\* control codes of C, J and z, and the letter 'a'
SymbolicTokens ==
    {[token |-> KW_ENTER, bytes |-> <<13>>],
     [token |-> KW_ESC, bytes |-> <<27>>],
     [token |-> KW_UP, bytes |-> <<27, 91, 65>>],
     [token |-> KW_DOWN, bytes |-> <<27, 91, 66>>],
     [token |-> KW_RIGHT, bytes |-> <<27, 91, 67>>],
     [token |-> KW_LEFT, bytes |-> <<27, 91, 68>>],
     [token |-> KW_BACKSPACE, bytes |-> <<127>>],
     [token |-> KW_BS, bytes |-> <<127>>],
     [token |-> KW_TAB, bytes |-> <<9>>],
     [token |-> KW_SPACE, bytes |-> <<32>>],
     [token |-> KW_CTRL \o <<67>>, bytes |-> <<3>>],
     [token |-> KW_CTRL \o <<74>>, bytes |-> <<10>>],
     [token |-> KW_CTRL \o <<122>>, bytes |-> <<26>>],
     [token |-> <<97>>, bytes |-> <<97>>]}

\* the stream read is the bytes of the key, alone or with the byte 'A' after
\* them
Pressed(t) ==
    IF t.bytes = <<ESC_KEY>> THEN EscAlone
    ELSE input0 \in {t.bytes, t.bytes \o <<CH_A>>}

\* C30: for each token of the symbolic grammar, the key that the injected-key
\* parser returns is the key that read_key() returns for the bytes of the
\* physical key.
C30_InjectedKeysAsReadKey ==
    KeyReturned =>
        \A t \in SymbolicTokens : Pressed(t) => keys[1] = read_test_key(t.token)

\* the size the tiers give: both overrides positive, or the width override
\* alone positive with the default height; else the device's answer; else the
\* helper's columns and rows; else 80 x 24
TieredSize ==
    IF wq.env_width.set /\ wq.env_height.set
         /\ wq.env_width.val > 0 /\ wq.env_height.val > 0
      THEN <<wq.env_height.val, wq.env_width.val>>
    ELSE IF wq.env_width.set /\ ~wq.env_height.set /\ wq.env_width.val > 0
      THEN <<24, wq.env_width.val>>
    ELSE IF wq.ioctl.ok /\ wq.ioctl.rows > 0 /\ wq.ioctl.cols > 0
      THEN <<wq.ioctl.rows, wq.ioctl.cols>>
    ELSE IF wq.tput.cols_ok /\ wq.tput.lines_ok
      THEN <<wq.tput.lines, wq.tput.cols>>
    ELSE <<24, 80>>

\* C31: a window-size query yields at least one row and one column, and a
\* query that asks afresh yields the size of the first tier that answers:
\* positive overrides, the device, the helper, 80 x 24.
C31_UsableWindowSize ==
    (pc = "size" /\ wq.calls > 0) =>
        /\ wq.rows >= 1
        /\ wq.cols >= 1
        /\ wq.queried => <<wq.rows, wq.cols>> = TieredSize

MarkedSet(s) ==
    {s.all_tries[i].name : i \in {j \in 1..Len(s.all_tries) :
                                    s.all_tries[j].marked_for_delete}}

\* C33: the delete list of a confirmed deletion holds exactly the entries
\* marked at that moment, as many names as the marked count, whatever the
\* filter text is.
C33_DeleteListIsMarkedSet ==
    (pc = "select" /\ sel.mode = "done" /\ sel.result = "ACTION_DELETE") =>
        /\ {sel.delete_names[i] : i \in 1..Len(sel.delete_names)} = MarkedSet(sel)
        /\ Len(sel.delete_names) = sel.marked_count

\* C34: at every iteration of the selector loop, and in the dialog it opens, the
\* marked count is the number of entries whose mark is set, and it is never
\* negative.
C34_MarkedCountIsMarks ==
    (pc = "select" /\ sel.mode \in {"selector", "dialog", "done"}) =>
        /\ sel.marked_count = Cardinality(MarkedSet(sel))
        /\ sel.marked_count >= 0

\* two entries are marked and one of them is hidden by the filter
C34_Witness ==
    /\ pc = "select" /\ sel.mode = "selector"
    /\ sel.marked_count = 2
    /\ \E i \in 1..Len(sel.all_tries) :
         /\ sel.all_tries[i].marked_for_delete
         /\ \A j \in 1..Len(sel.filtered_ptrs) : sel.filtered_ptrs[j] # i

\* C35: after any sequence of keys the selected index is a row of the list: it
\* is at least 0 and below the number of filtered entries, or it equals that
\* number while the filter is not empty (the row that creates a new entry);
\* where there is no row at all it is 0.
C35_SelectedIndexInRange ==
    (pc = "select" /\ sel.mode \in {"selector", "dialog", "done"}) =>
        LET n == Len(sel.filtered_ptrs)
        IN /\ sel.selected_index >= 0
           /\ \/ sel.selected_index < n
              \/ sel.selected_index = n /\ Len(sel.filter_buffer) > 0
              \/ n = 0 /\ sel.selected_index = 0

\* the row that creates a new entry is selected below a list of two entries
C35_Witness ==
    /\ pc = "select" /\ sel.mode = "selector"
    /\ Len(sel.filtered_ptrs) = 2
    /\ sel.selected_index = 2
    /\ sel.scroll_offset > 0

C39_UnboundKeyChangesNothing ==
    [][(\E c \in UnboundKeys : SelKey(c)) =>
          /\ UserState(sel') = UserState(sel)
          /\ sel'.filtered_ptrs = sel.filtered_ptrs
          /\ sel'.mode = sel.mode
          /\ sel'.result = sel.result]_vars

\* a selector with a filter text, a selected row below the first and a mark:
\* the state an unbound key finds and leaves
C39_Witness ==
    /\ pc = "select" /\ sel.mode = "selector"
    /\ Len(sel.filter_buffer) = 1 /\ sel.filter_cursor = 1
    /\ sel.selected_index = 1
    /\ sel.marked_count = 1

\* the stream is an ESC, one byte, and then nothing: the end of the input, or
\* on a raw terminal a pause longer than the timeout
EscAndOneByte ==
    /\ Len(input0) >= 2
    /\ Head(input0) = ESC_KEY
    /\ input0[2] # GAP
    /\ \/ Len(input0) = 2
       \/ tty /\ raw_mode_enabled /\ input0[3] = GAP

\* C36: where an ESC is followed by exactly one more byte and then nothing,
\* and no signal interrupts the reads, the first call of read_key() does not
\* return ESC with that byte consumed: the byte is part of the key returned,
\* or it is still in the stream for the next call.
C36_NoByteDropped ==
    (KeyReturned /\ Len(keys) = 1 /\ n_resize = 0 /\ EscAndOneByte)
    => ~(keys[1] = ESC_KEY /\ input = Rest(2))

\* a style escape code starts at byte i: ESC [ parameters m
StyleCodeAt(b, i) ==
    /\ i + 2 <= Len(b)
    /\ b[i] = ESC_KEY
    /\ b[i + 1] = CH_LBRACKET
    /\ \E j \in (i + 2)..Len(b) :
         /\ b[j] = CH_m
         /\ \A k \in (i + 2)..(j - 1) : b[k] = CH_SEMI \/ (b[k] >= CH_0 /\ b[k] <= CH_0 + 9)

\* C38: with colors disabled, what a line of the Screen Composer writes to the
\* stream (the line as written, truncated or not, with an input field and its
\* placeholder on it) holds no style escape code.
C38_PlainOutputUnstyled ==
    (Written /\ wcall.no_colors) =>
        \A i \in 1..Len(tui.file) : ~StyleCodeAt(tui.file, i)

\* C40: for every injected key string the position of read_test_key() stays
\* at or before the terminating NUL of the string, and a read made at the NUL
\* returns end of input and leaves the position there.
C40_ReaderStaysInString ==
    /\ [](pc = "inject" => inj.key_index <= Len(inj.inject_keys))
    /\ [][(ReadTestKey /\ inj.key_index = Len(inj.inject_keys)) =>
            (inj'.ret = KEY_EOF /\ inj'.key_index = inj.key_index)]_vars

====
